---- MODULE Spec2Model ----
(***************************************************************************)
(* Model of the desk correlation code of the Deskbird MCP server:          *)
(*   - SpatialUtils (distance, radius search, same-row search, closest     *)
(*     available desks, nearby colleagues, lookup in a parsed floor        *)
(*     configuration, spatial summary, booking time overlap),              *)
(*   - WorkspacesApi.parseFloorConfig / findDeskZoneId, the desk mapping   *)
(*     of handleGetUserFavorites and _lookupDeskZoneId.                    *)
(* These functions are pure; an action applies one function to the inputs  *)
(* drawn by Init and records the call and what it returned or threw.       *)
(*   - the favorite, unfavorite and book-desk tool handlers,               *)
(*   - DeskbirdSdk.ensureAccessToken and initializeSdk of the SDK-based    *)
(*     server, under concurrent tool calls.                                *)
(***************************************************************************)
EXTENDS Integers, Sequences, FiniteSets, TLC

VARIABLES
    desks,            \* DeskPosition[] handed to the SpatialUtils queries
    occupancyData,    \* ZoneAvailabilityData.availability.zoneItems
    floorConfigJson,  \* the floorConfig JSON text handed to the parsers
    call,             \* the last call: its name and arguments
    result,           \* what the last call returned or threw
    deskbirdSdk,      \* DeskbirdMcpServer.deskbirdSdk is set
    currentAccessToken,   \* DeskbirdSdk.currentAccessToken
    tokenRefreshPromise,  \* DeskbirdSdk.tokenRefreshPromise
    authorization,    \* the Authorization default header of the HttpClient
    refreshes,        \* the requests sent to the token endpoint
    tasks             \* the tool calls made to the SDK-based server

sdkVars == <<deskbirdSdk, currentAccessToken, tokenRefreshPromise,
             authorization, refreshes, tasks>>

vars == <<desks, occupancyData, floorConfigJson, call, result, sdkVars>>

\* no SDK client was created: no token, no refresh, no tool call
SdkNotCreated ==
    /\ deskbirdSdk = FALSE
    /\ currentAccessToken = <<>>
    /\ tokenRefreshPromise = <<>>
    /\ authorization = <<>>
    /\ refreshes = <<>>
    /\ tasks = <<>>

----------------------------------------------------------------------------
(* Bounds of the model *)

\* desk ids are 1..MaxDesks and a desk list holds at most MaxDesks desks
MaxDesks == 3
\* count arguments of findClosestAvailableDesks range over -1..MaxCount
MaxCount == 2
\* at most MaxZoneItems zone items in an availability payload
MaxZoneItems == 2

\* a target id is a desk id; the desk list may or may not hold a desk with it
DeskIds == 1..MaxDesks
\* zoneItem.order: a desk id, or MaxDesks + 1, the id of a desk of another floor
Orders == 1..(MaxDesks + 1)
Counts == -1..MaxCount

\* Floor positions. The set is an integral point set (all pairwise distances
\* are integers: 3, 4, 5, 8), so Math.sqrt is exact on it.
Positions == {<<0, 0>>, <<0, 4>>, <<0, 8>>, <<3, 4>>}
\* maxDistance arguments: below, at and between the distances that occur
Radii == {-1, 0, 3, 4, 5, 7}
\* radius arguments of findNearbyColleagues
ColleagueRadii == {4, 5, 8}

\* The floor the occupancy queries run on: desk 1 and desk 3 are both at
\* distance 5 of desk 2 and at distance 8 of each other.
PlanPosition(id) ==
    CASE id = 1 -> <<0, 0>>
      [] id = 2 -> <<3, 4>>
      [] id = 3 -> <<0, 8>>
      [] OTHER  -> <<0, 4>>

\* desk.zoneId lives in the same numeric range as desk.id but differs from it
ZoneIdOf(id) == (id % MaxDesks) + 1

NoCall == [op |-> "none"]
NoResult == [kind |-> "none", value |-> <<>>]
Return(v) == [kind |-> "return", value |-> v]
Throw(msg) == [kind |-> "throw", value |-> <<>>, message |-> msg]

----------------------------------------------------------------------------
(* Array helpers of the JavaScript runtime *)

Range(s) == {s[i] : i \in 1..Len(s)}

\* Array.prototype.filter
RECURSIVE SeqFilter(_, _)
SeqFilter(s, keep) ==
    IF s = <<>> THEN <<>>
    ELSE IF Head(s) \in keep THEN <<Head(s)>> \o SeqFilter(Tail(s), keep)
         ELSE SeqFilter(Tail(s), keep)

\* Array.prototype.find on a predicate given as the set of matching elements:
\* the index of the first match, 0 (undefined) when there is none
RECURSIVE FindIndexFrom(_, _, _)
FindIndexFrom(s, matching, i) ==
    IF i > Len(s) THEN 0
    ELSE IF s[i] \in matching THEN i
         ELSE FindIndexFrom(s, matching, i + 1)

FindIndex(s, matching) == FindIndexFrom(s, matching, 1)

\* Array.prototype.slice(0, end): a negative end counts from the end
SliceTo(s, end) ==
    LET k == IF end < 0 THEN (IF Len(s) + end < 0 THEN 0 ELSE Len(s) + end)
             ELSE (IF end > Len(s) THEN Len(s) ELSE end)
    IN  SubSeq(s, 1, k)

Reverse(s) == [i \in 1..Len(s) |-> s[Len(s) + 1 - i]]

(* Array.prototype.sort(comparefn) as Node's V8 runs it on an array of fewer
   than 64 elements: the leading run is found (and reversed when strictly
   descending), the remaining elements are placed by binary insertion.
   c[<<i, j>>] is comparefn(arr[i], arr[j]); the sort works on the indices. *)
RECURSIVE RunEnd(_, _, _, _)
RunEnd(perm, c, idx, isDescending) ==
    IF idx > Len(perm) THEN Len(perm)
    ELSE LET order == c[<<perm[idx], perm[idx - 1]>>]
         IN  IF (isDescending /\ order >= 0) \/ (~isDescending /\ order < 0)
             THEN idx - 1
             ELSE RunEnd(perm, c, idx + 1, isDescending)

CountAndMakeRun(perm, c) ==
    LET isDescending == c[<<perm[2], perm[1]>>] < 0
        runLength == RunEnd(perm, c, 3, isDescending)
    IN  [runLength |-> runLength,
         perm |-> IF isDescending
                  THEN Reverse(SubSeq(perm, 1, runLength))
                       \o SubSeq(perm, runLength + 1, Len(perm))
                  ELSE perm]

\* left and right are 0-based as in the runtime; perm is 1-based
RECURSIVE InsertionPoint(_, _, _, _, _)
InsertionPoint(perm, c, pivot, left, right) ==
    IF left >= right THEN left
    ELSE LET mid == left + ((right - left) \div 2)
             order == c[<<pivot, perm[mid + 1]>>]
         IN  IF order < 0 THEN InsertionPoint(perm, c, pivot, left, mid)
             ELSE InsertionPoint(perm, c, pivot, mid + 1, right)

RECURSIVE BinaryInsertionSort(_, _, _)
BinaryInsertionSort(perm, c, start) ==
    IF start >= Len(perm) THEN perm
    ELSE LET pivot == perm[start + 1]
             left == InsertionPoint(perm, c, pivot, 0, start)
             moved == SubSeq(perm, 1, left) \o <<pivot>>
                      \o SubSeq(perm, left + 1, start)
                      \o SubSeq(perm, start + 2, Len(perm))
         IN  BinaryInsertionSort(moved, c, start + 1)

SortPermutation(n, c) ==
    LET identity == [i \in 1..n |-> i]
    IN  IF n < 2 THEN identity
        ELSE LET run == CountAndMakeRun(identity, c)
             IN  BinaryInsertionSort(run.perm, c, run.runLength)

ArraySort(arr, c) ==
    LET perm == SortPermutation(Len(arr), c)
    IN  [k \in 1..Len(arr) |-> arr[perm[k]]]

----------------------------------------------------------------------------
(* SpatialUtils *)

\* Math.sqrt on the perfect squares the position set yields
Sqrt(n) == CHOOSE r \in 0..n : r * r = n

\* the Y coordinate of position2 subtracted from both coordinates
MixedAxisDistance(position1, position2) ==
    LET dx == position1[1] - position2[2]
        dy == position1[2] - position2[2]
        n == dx * dx + dy * dy
    IN  CHOOSE r \in 0..n : r * r <= n /\ (r + 1) * (r + 1) > n

calculateDeskDistance(position1, position2) ==
    LET dx == position1[1] - position2[1]
        dy == position1[2] - position2[2]
    IN  Sqrt(dx * dx + dy * dy)

ByDistanceDescending(arr) ==
    [p \in (1..Len(arr)) \X (1..Len(arr)) |->
        arr[p[2]].distance - arr[p[1]].distance]

\* (a, b) => a.distance - b.distance, tabulated over the indices of arr
ByDistance(arr) ==
    [p \in (1..Len(arr)) \X (1..Len(arr)) |->
        arr[p[1]].distance - arr[p[2]].distance]

WithDistance(desk, targetDesk) ==
    [id |-> desk.id, zoneId |-> desk.zoneId, position |-> desk.position,
     distance |-> calculateDeskDistance(targetDesk.position, desk.position)]

\* desks.find(d => d.id === targetDeskId): its index, 0 when undefined
FindTargetDesk(targetDeskId, deskList) ==
    FindIndex(deskList, {d \in Range(deskList) : d.id = targetDeskId})

\* .filter(desk => desk.id !== targetDeskId)
OtherDesks(targetDeskId, deskList) ==
    SeqFilter(deskList, {d \in Range(deskList) : d.id # targetDeskId})

WithinRadiusStrict(distance, maxDistance) == distance < maxDistance

WithinRadiusFlipped(distance, maxDistance) == distance >= maxDistance

\* desk.distance <= maxDistance
WithinRadius(distance, maxDistance) == distance <= maxDistance

findDesksWithinRadius(targetDeskId, deskList, maxDistance) ==
    LET t == FindTargetDesk(targetDeskId, deskList)
    IN  IF t = 0 THEN Throw("Target desk not found")
        ELSE LET targetDesk == deskList[t]
                 others == OtherDesks(targetDeskId, deskList)
                 mapped == [i \in 1..Len(others) |->
                              WithDistance(others[i], targetDesk)]
                 near == SeqFilter(mapped,
                            {d \in Range(mapped) :
                                WithinRadius(d.distance, maxDistance)})
             IN  Return(ArraySort(near, ByDistance(near)))

\* Map.prototype.set on a map held as a function
MapSet(map, key, value) ==
    [k \in (DOMAIN map) \cup {key} |-> IF k = key THEN value ELSE map[k]]

EmptyMap == [k \in {} |-> FALSE]

\* desks.find(d => d.id === item.order): the index of the desk, 0 when undefined
DeskByListIndex(item, deskList) ==
    IF item.order \in 1..Len(deskList) THEN item.order ELSE 0

MatchByZoneItemId(item, deskList) ==
    FindIndex(deskList, {d \in Range(deskList) : d.id = item.id})

DeskOfZoneItem(item, deskList) ==
    FindIndex(deskList, {d \in Range(deskList) : d.id = item.order})

\* the forEach over zoneItems that fills availabilityMap
RECURSIVE BuildAvailabilityMap(_, _, _)
BuildAvailabilityMap(zoneItems, deskList, map) ==
    IF zoneItems = <<>> THEN map
    ELSE LET item == Head(zoneItems)
             k == DeskOfZoneItem(item, deskList)
         IN  BuildAvailabilityMap(Tail(zoneItems), deskList,
                IF k # 0 THEN MapSet(map, deskList[k].id, item.isAvailable)
                ELSE map)

IgnoreAvailability(map, id) == TRUE

DefaultAvailable(map, id) == IF id \in DOMAIN map THEN map[id] ELSE TRUE

\* availabilityMap.get(desk.id) ?? false
AvailabilityOf(map, id) == IF id \in DOMAIN map THEN map[id] ELSE FALSE

KeepAll(rows, count) == rows

\* .slice(0, count)
Truncate(rows, count) == SliceTo(rows, count)

findClosestAvailableDesks(targetDeskId, deskList, zoneItems, count) ==
    LET t == FindTargetDesk(targetDeskId, deskList)
    IN  IF t = 0 THEN Throw("Target desk not found")
        ELSE LET targetDesk == deskList[t]
                 availabilityMap ==
                     BuildAvailabilityMap(zoneItems, deskList, EmptyMap)
                 others == OtherDesks(targetDeskId, deskList)
                 mapped == [i \in 1..Len(others) |->
                     [id |-> others[i].id, zoneId |-> others[i].zoneId,
                      position |-> others[i].position,
                      distance |-> calculateDeskDistance(targetDesk.position,
                                                         others[i].position),
                      isAvailable |->
                          AvailabilityOf(availabilityMap, others[i].id)]]
                 available == SeqFilter(mapped,
                                 {d \in Range(mapped) : d.isAvailable})
             IN  Return(Truncate(ArraySort(available, ByDistance(available)),
                                 count))

\* the forEach over zoneItems that fills occupancyMap
RECURSIVE BuildOccupancyMap(_, _, _)
BuildOccupancyMap(zoneItems, deskList, map) ==
    IF zoneItems = <<>> THEN map
    ELSE LET item == Head(zoneItems)
             k == DeskOfZoneItem(item, deskList)
         IN  BuildOccupancyMap(Tail(zoneItems), deskList,
                IF k # 0 /\ Len(item.users) > 0
                THEN MapSet(map, deskList[k].id, item.users)
                ELSE map)

\* occupancyMap.get(desk.id) || []
OccupantsOf(map, id) == IF id \in DOMAIN map THEN map[id] ELSE <<>>

AnyOccupancy(row, radius) == row.distance <= radius

\* item.distance <= radius && item.users.length > 0
IsNearbyColleague(row, radius) ==
    row.distance <= radius /\ Len(row.users) > 0

findNearbyColleagues(targetDeskId, deskList, zoneItems, radius) ==
    LET t == FindTargetDesk(targetDeskId, deskList)
    IN  IF t = 0 THEN Throw("Target desk not found")
        ELSE LET targetDesk == deskList[t]
                 occupancyMap ==
                     BuildOccupancyMap(zoneItems, deskList, EmptyMap)
                 others == OtherDesks(targetDeskId, deskList)
                 mapped == [i \in 1..Len(others) |->
                     [desk |-> others[i],
                      distance |-> calculateDeskDistance(targetDesk.position,
                                                         others[i].position),
                      users |-> OccupantsOf(occupancyMap, others[i].id)]]
                 near == SeqFilter(mapped,
                            {r \in Range(mapped) :
                                IsNearbyColleague(r, radius)})
             IN  Return(ArraySort(near, ByDistance(near)))

Abs(x) == IF x < 0 THEN -x ELSE x

InSameColumn(desk, targetDesk, tolerance) ==
    Abs(desk.position[1] - targetDesk.position[1]) <= tolerance

SignedRowDifference(desk, targetDesk, tolerance) ==
    desk.position[2] - targetDesk.position[2] <= tolerance

\* Math.abs(desk.position[1] - targetDesk.position[1]) <= tolerance, where
\* position[1] of the source is the Y coordinate, position[2] here
InSameRow(desk, targetDesk, tolerance) ==
    Abs(desk.position[2] - targetDesk.position[2]) <= tolerance

findDesksInSameRow(targetDeskId, deskList, tolerance) ==
    LET t == FindTargetDesk(targetDeskId, deskList)
    IN  IF t = 0 THEN Throw("Target desk not found")
        ELSE LET targetDesk == deskList[t]
             IN  Return(SeqFilter(deskList,
                    {d \in Range(deskList) :
                        /\ d.id # targetDeskId
                        /\ InSameRow(d, targetDesk, tolerance)}))

ClosedOverlap(booking1, booking2) ==
    /\ booking1.startTime <= booking2.endTime
    /\ booking2.startTime <= booking1.endTime

\* booking1.startTime < booking2.endTime && booking2.startTime < booking1.endTime
hasTimeOverlap(booking1, booking2) ==
    /\ booking1.startTime < booking2.endTime
    /\ booking2.startTime < booking1.endTime

----------------------------------------------------------------------------
(* Inputs *)

DeskPool == {[id |-> i, zoneId |-> ZoneIdOf(i), position |-> p] :
                i \in DeskIds, p \in Positions}

\* desk lists of up to MaxDesks desks with pairwise distinct ids, in any order
DeskLists ==
    UNION {{s \in [1..n -> DeskPool] :
              \A i, j \in 1..n : i # j => s[i].id # s[j].id} : n \in 0..MaxDesks}

\* the desks of the planned floor, any of them present, in any list order
PlanDesks == {[id |-> i, zoneId |-> ZoneIdOf(i), position |-> PlanPosition(i)] :
                 i \in DeskIds}

PlanDeskLists ==
    UNION {{s \in [1..n -> PlanDesks] :
              \A i, j \in 1..n : i # j => s[i].id # s[j].id} : n \in 0..MaxDesks}

\* A zone item is free, booked (by the user named after its order) or blocked
\* (not available, nobody booked). zoneItem.id is the zone id of the desk
\* that the order names.
UserOf(order) == [userId |-> order, bookingId |-> 10 * order]

ZoneItems ==
    {[id |-> ZoneIdOf(o), order |-> o, isAvailable |-> TRUE, users |-> <<>>] :
        o \in Orders}
    \cup {[id |-> ZoneIdOf(o), order |-> o, isAvailable |-> FALSE,
           users |-> <<UserOf(o)>>] : o \in Orders}
    \cup {[id |-> ZoneIdOf(o), order |-> o, isAvailable |-> FALSE,
           users |-> <<>>] : o \in Orders}

\* Zone item lists of up to MaxZoneItems items, in ascending order of their
\* order field; several items may carry the same order, in either sequence.
ZoneItemLists ==
    UNION {{s \in [1..n -> ZoneItems] :
              \A i, j \in 1..n : i < j => s[i].order <= s[j].order} :
           n \in 0..MaxZoneItems}

NoFloorConfig == [kind |-> "none"]

----------------------------------------------------------------------------
(* Specification of the geometric queries *)

Init ==
    /\ desks \in DeskLists
    /\ occupancyData = <<>>
    /\ floorConfigJson = NoFloorConfig
    /\ call = NoCall
    /\ result = NoResult
    /\ SdkNotCreated

CallFindDesksWithinRadius ==
    \E targetDeskId \in DeskIds, maxDistance \in Radii :
        /\ call = NoCall
        /\ call' = [op |-> "findDesksWithinRadius",
                    targetDeskId |-> targetDeskId, maxDistance |-> maxDistance]
        /\ result' = findDesksWithinRadius(targetDeskId, desks, maxDistance)
        /\ UNCHANGED <<desks, occupancyData, floorConfigJson, sdkVars>>

\* tolerance arguments: below, at and between the Y differences that occur
Tolerances == {-1, 0, 3, 4, 8}

CallFindDesksInSameRow ==
    \E targetDeskId \in DeskIds, tolerance \in Tolerances :
        /\ call = NoCall
        /\ call' = [op |-> "findDesksInSameRow",
                    targetDeskId |-> targetDeskId, tolerance |-> tolerance]
        /\ result' = findDesksInSameRow(targetDeskId, desks, tolerance)
        /\ UNCHANGED <<desks, occupancyData, floorConfigJson, sdkVars>>

CallCalculateDeskDistance ==
    \E position1 \in Positions, position2 \in Positions :
        /\ call = NoCall
        /\ call' = [op |-> "calculateDeskDistance",
                    position1 |-> position1, position2 |-> position2]
        /\ result' = Return(<<calculateDeskDistance(position1, position2)>>)
        /\ UNCHANGED <<desks, occupancyData, floorConfigJson, sdkVars>>

Next ==
    \/ CallFindDesksWithinRadius
    \/ CallFindDesksInSameRow
    \/ CallCalculateDeskDistance

Spec == Init /\ [][Next]_vars

----------------------------------------------------------------------------
(* Properties of findDesksWithinRadius *)

\* the squared Euclidean distance, computed apart from the code's operators
DistSq(p, q) == (p[1] - q[1]) * (p[1] - q[1]) + (p[2] - q[2]) * (p[2] - q[2])

\* sqrt(DistSq(p, q)) <= r, over the integers
AtMost(p, q, r) == r >= 0 /\ DistSq(p, q) <= r * r

DeskOf(id) == CHOOSE d \in Range(desks) : d.id = id
HasDesk(id) == \E d \in Range(desks) : d.id = id
ResultIds == {result.value[i].id : i \in 1..Len(result.value)}

\* the position a desk id has in the input desk list
InputIndex(id) == CHOOSE i \in 1..Len(desks) : desks[i].id = id

RadiusCall == call.op = "findDesksWithinRadius" /\ HasDesk(call.targetDeskId)

(* C1: for a target present in a desk list with unique ids, withinRadius
   returns exactly the desks other than the target whose Euclidean distance
   to the target is <= maxDistance (the boundary included), each once, each
   with its distance, and never the target. *)
C1_WithinRadiusExact ==
    RadiusCall =>
        /\ result.kind = "return"
        /\ ResultIds = {d.id : d \in {e \in Range(desks) :
                            /\ e.id # call.targetDeskId
                            /\ AtMost(e.position,
                                      DeskOf(call.targetDeskId).position,
                                      call.maxDistance)}}
        /\ Len(result.value) = Cardinality(ResultIds)
        /\ \A i \in 1..Len(result.value) :
              LET r == result.value[i]
              IN  /\ r.position = DeskOf(r.id).position
                  /\ r.zoneId = DeskOf(r.id).zoneId
                  /\ r.distance * r.distance
                        = DistSq(r.position, DeskOf(call.targetDeskId).position)

\* a desk exactly at maxDistance is returned while a farther one is left out
C1_Witness ==
    /\ RadiusCall
    /\ result.kind = "return"
    /\ \E i \in 1..Len(result.value) :
          /\ result.value[i].distance = call.maxDistance
          /\ call.maxDistance > 0
    /\ \E d \in Range(desks) :
          d.id # call.targetDeskId /\ d.id \notin ResultIds

SortedByDistance(rows) ==
    \A i, j \in 1..Len(rows) : i < j => rows[i].distance <= rows[j].distance

(* C2 as stated: the result of withinRadius is sorted ascending by distance
   and results at equal distance appear in ascending desk id order, for
   every input order of the desk list. *)
C2_TiesByAscendingId ==
    (RadiusCall /\ result.kind = "return") =>
        /\ SortedByDistance(result.value)
        /\ \A i, j \in 1..Len(result.value) :
              (i < j /\ result.value[i].distance = result.value[j].distance)
                  => result.value[i].id < result.value[j].id

(* C2 amended: the result of withinRadius is sorted ascending by distance
   and results at equal distance keep the relative order they have in the
   input desk list. *)
C2_TiesKeepInputOrder ==
    (RadiusCall /\ result.kind = "return") =>
        /\ SortedByDistance(result.value)
        /\ \A i, j \in 1..Len(result.value) :
              (i < j /\ result.value[i].distance = result.value[j].distance)
                  => InputIndex(result.value[i].id)
                        < InputIndex(result.value[j].id)

\* two results at equal distance, returned in descending id order
C2_Witness ==
    /\ RadiusCall
    /\ result.kind = "return"
    /\ \E i, j \in 1..Len(result.value) :
          /\ i < j
          /\ result.value[i].distance = result.value[j].distance
          /\ result.value[i].id > result.value[j].id

----------------------------------------------------------------------------
(* Specification of the occupancy queries *)

InitOccupancy ==
    /\ desks \in PlanDeskLists
    /\ occupancyData \in ZoneItemLists
    /\ floorConfigJson = NoFloorConfig
    /\ call = NoCall
    /\ result = NoResult
    /\ SdkNotCreated

CallFindClosestAvailableDesks ==
    \E targetDeskId \in DeskIds, count \in Counts :
        /\ call = NoCall
        /\ call' = [op |-> "findClosestAvailableDesks",
                    targetDeskId |-> targetDeskId, count |-> count]
        /\ result' = findClosestAvailableDesks(targetDeskId, desks,
                                               occupancyData, count)
        /\ UNCHANGED <<desks, occupancyData, floorConfigJson, sdkVars>>

CallFindNearbyColleagues ==
    \E targetDeskId \in DeskIds, radius \in ColleagueRadii :
        /\ call = NoCall
        /\ call' = [op |-> "findNearbyColleagues",
                    targetDeskId |-> targetDeskId, radius |-> radius]
        /\ result' = findNearbyColleagues(targetDeskId, desks,
                                          occupancyData, radius)
        /\ UNCHANGED <<desks, occupancyData, floorConfigJson, sdkVars>>

NextOccupancy == CallFindClosestAvailableDesks \/ CallFindNearbyColleagues

SpecOccupancy == InitOccupancy /\ [][NextOccupancy]_vars

----------------------------------------------------------------------------
(* Properties of the occupancy queries *)

ItemsOf(id) == {i \in 1..Len(occupancyData) : occupancyData[i].order = id}
Max(S) == CHOOSE m \in S : \A x \in S : x <= m

\* the occupancy entry of a desk: the last zone item whose order is its id
HasEntry(id) == ItemsOf(id) # {}
Entry(id) == occupancyData[Max(ItemsOf(id))]
EntryAvailable(id) == HasEntry(id) /\ Entry(id).isAvailable

\* the last zone item of a desk that carries users
BookedItemsOf(id) == {i \in ItemsOf(id) : Len(occupancyData[i].users) > 0}
HasOccupants(id) == BookedItemsOf(id) # {}
Occupants(id) == occupancyData[Max(BookedItemsOf(id))].users

TargetPosition == DeskOf(call.targetDeskId).position
OtherDeskIds == {d.id : d \in {e \in Range(desks) : e.id # call.targetDeskId}}
AvailableOthers == {id \in OtherDeskIds : EntryAvailable(id)}
Min2(a, b) == IF a < b THEN a ELSE b

ClosestCall ==
    /\ call.op = "findClosestAvailableDesks"
    /\ HasDesk(call.targetDeskId)

ColleaguesCall ==
    /\ call.op = "findNearbyColleagues"
    /\ HasDesk(call.targetDeskId)

(* C3: nearestAvailable never returns more than count results (count >= 0:
   no result can be shorter than a negative count), never returns the target
   desk and never returns a desk whose occupancy entry is not available,
   whatever the desk list, the zone items and the count. *)
C3_NearestAvailableSafe ==
    ClosestCall =>
        /\ result.kind = "return"
        /\ call.count >= 0 => Len(result.value) <= call.count
        /\ \A i \in 1..Len(result.value) :
              /\ result.value[i].id # call.targetDeskId
              /\ EntryAvailable(result.value[i].id)
              /\ result.value[i].isAvailable = TRUE

\* the count cuts the result while a booked desk and the target are left out
C3_Witness ==
    /\ ClosestCall
    /\ result.kind = "return"
    /\ call.count = 1
    /\ Len(result.value) = 1
    /\ Cardinality(OtherDeskIds) = 2
    /\ \E id \in OtherDeskIds : HasEntry(id) /\ ~Entry(id).isAvailable

(* C4: for count >= 0, nearestAvailable returns min(count, number of
   available desks other than the target) desks, sorted by distance
   ascending, each as close to the target as every available desk left out;
   with fewer than count available desks it returns them all. *)
C4_NearestAvailableClosest ==
    (ClosestCall /\ call.count >= 0) =>
        /\ result.kind = "return"
        /\ Len(result.value)
              = Min2(call.count, Cardinality(AvailableOthers))
        /\ Cardinality(ResultIds) = Len(result.value)
        /\ ResultIds \subseteq AvailableOthers
        /\ SortedByDistance(result.value)
        /\ \A i \in 1..Len(result.value) :
              LET r == result.value[i]
              IN  /\ r.distance * r.distance
                        = DistSq(DeskOf(r.id).position, TargetPosition)
                  /\ \A id \in AvailableOthers \ ResultIds :
                        r.distance * r.distance
                          <= DistSq(DeskOf(id).position, TargetPosition)

\* two available desks at different distances and count 1: the nearer stays
C4_Witness ==
    /\ ClosestCall
    /\ result.kind = "return"
    /\ call.count = 1
    /\ Len(result.value) = 1
    /\ \E id \in AvailableOthers \ ResultIds :
          DistSq(DeskOf(id).position, TargetPosition)
            > result.value[1].distance * result.value[1].distance

(* C5: nearbyColleagues returns exactly the desks other than the target
   that are within maxDistance (inclusive) of the target and have at least
   one occupant in the payload, each with that desk's occupant list, sorted
   by distance ascending. *)
C5_NearbyColleaguesExact ==
    ColleaguesCall =>
        /\ result.kind = "return"
        /\ {result.value[i].desk.id : i \in 1..Len(result.value)}
              = {id \in OtherDeskIds :
                    /\ HasOccupants(id)
                    /\ AtMost(DeskOf(id).position, TargetPosition,
                              call.radius)}
        /\ \A i, j \in 1..Len(result.value) :
              i # j => result.value[i].desk.id # result.value[j].desk.id
        /\ SortedByDistance(result.value)
        /\ \A i \in 1..Len(result.value) :
              LET r == result.value[i]
              IN  /\ r.desk \in Range(desks)
                  /\ r.users = Occupants(r.desk.id)
                  /\ r.distance * r.distance
                        = DistSq(r.desk.position, TargetPosition)

\* a booked desk exactly at the radius is returned with its occupant while
\* another desk in reach, without occupants, is not
C5_Witness ==
    /\ ColleaguesCall
    /\ result.kind = "return"
    /\ Len(result.value) = 1
    /\ result.value[1].distance = call.radius
    /\ Len(result.value[1].users) = 1
    /\ \E id \in OtherDeskIds :
          /\ id # result.value[1].desk.id
          /\ ~HasOccupants(id)
          /\ AtMost(DeskOf(id).position, TargetPosition, call.radius)

\* zone items that name a desk by another field than order
ItemsById(id) == {i \in 1..Len(occupancyData) : occupancyData[i].id = id}
ItemsByZoneId(id) ==
    {i \in 1..Len(occupancyData) : occupancyData[i].id = DeskOf(id).zoneId}

(* C6: occupancy is correlated to desks only through zoneItem.order matched
   against desk.id: the availability flag that nearestAvailable uses and the
   occupant list that nearbyColleagues uses for a desk d are those of the
   zone item whose order is d.id, whatever the zone items whose id equals
   d.id or d.zoneId say. *)
C6_CorrelatedByOrder ==
    /\ (ClosestCall /\ call.count >= Cardinality(OtherDeskIds)) =>
          \A id \in OtherDeskIds :
              (id \in ResultIds) <=>
                  (\E i \in ItemsOf(id) :
                      /\ occupancyData[i].isAvailable
                      /\ \A j \in ItemsOf(id) : j <= i)
    /\ ColleaguesCall =>
          \A id \in OtherDeskIds :
              LET rows == {k \in 1..Len(result.value) :
                              result.value[k].desk.id = id}
              IN  /\ (rows # {}) =>
                        \E i \in ItemsOf(id) :
                            \A k \in rows :
                                result.value[k].users = occupancyData[i].users
                  /\ (rows = {} /\ AtMost(DeskOf(id).position, TargetPosition,
                                          call.radius)) =>
                        \A i \in ItemsOf(id) : occupancyData[i].users = <<>>

\* a desk left out although a free zone item carries its id as zoneItem.id,
\* its own zone item (by order) being booked
C6_Witness ==
    /\ ClosestCall
    /\ call.count >= Cardinality(OtherDeskIds)
    /\ \E id \in OtherDeskIds :
          /\ id \notin ResultIds
          /\ HasEntry(id)
          /\ \E i \in ItemsById(id) : occupancyData[i].isAvailable

----------------------------------------------------------------------------
(* Floor configuration payloads *)

\* a property that is absent (undefined), or present with a value
None == <<>>
Some(x) == <<x>>

\* at most MaxConfigDesks desk objects in a floor configuration
MaxConfigDesks == 2
\* spread over at most MaxAreas areas
MaxAreas == 2

\* Desk titles are strings over digits and capital letters. The pool holds
\* titles without a number, two titles with the same number, the numbers 2
\* and 10, which order differently as numbers and as strings, and a title
\* with two runs of digits.
TitlePool ==
    {None, Some(<<"A">>), Some(<<"C">>), Some(<<"1">>), Some(<<"B", "1">>),
     Some(<<"2">>), Some(<<"1", "0">>), Some(<<"2", "A", "1">>)}

\* id, zoneId and position of a desk object: complete desks, one sharing the
\* id of another, one sharing the zoneId of another, and desks that lack
\* their id or their position
DeskShapes ==
    {[id |-> Some(1), zoneId |-> Some(901), position |-> Some(<<0, 0>>)],
     [id |-> Some(2), zoneId |-> Some(902), position |-> Some(<<3, 4>>)],
     [id |-> Some(2), zoneId |-> Some(901), position |-> Some(<<0, 4>>)],
     [id |-> None,    zoneId |-> Some(902), position |-> Some(<<0, 8>>)],
     [id |-> Some(1), zoneId |-> Some(902), position |-> None]}

DeskObject(sh, t) ==
    [id |-> sh.id, zoneId |-> sh.zoneId, position |-> sh.position,
     title |-> t, status |-> None]

\* Every title on the first complete desk; the other desks are titled "B1"
\* (a number shared with the title "1") or "A" (no number).
DeskObjects ==
    {DeskObject([id |-> Some(1), zoneId |-> Some(901),
                 position |-> Some(<<0, 0>>)], t) : t \in TitlePool}
    \cup {DeskObject(sh, t) :
             sh \in DeskShapes, t \in {Some(<<"B", "1">>), Some(<<"A">>)}}

DeskObjectLists == UNION {[1..n -> DeskObjects] : n \in 0..MaxConfigDesks}

AreaOf(deskObjects) ==
    [kind |-> "object", name |-> Some("Main"),
     desks |-> [kind |-> "array", items |-> deskObjects]]

\* The ways to spread a desk list over consecutive areas: cuts[i] is the
\* number of desks in the areas 1..i, the last area takes the others.
CutLists ==
    UNION {[1..(k - 1) -> 0..MaxConfigDesks] : k \in 1..MaxAreas}

IsSplitOf(deskObjects, cuts) ==
    /\ \A i \in 1..Len(cuts) : cuts[i] <= Len(deskObjects)
    /\ \A i, j \in 1..Len(cuts) : i < j => cuts[i] <= cuts[j]

AreaSplit(deskObjects, cuts) ==
    [i \in 1..(Len(cuts) + 1) |->
        AreaOf(SubSeq(deskObjects,
                      (IF i = 1 THEN 0 ELSE cuts[i - 1]) + 1,
                      IF i > Len(cuts) THEN Len(deskObjects) ELSE cuts[i]))]

AreasOf(items) == [kind |-> "array", items |-> items]
JsonObject(areas) == [kind |-> "object", areas |-> areas]

\* areas that carry no desk array, and a null entry of the areas array
AreaWithoutDesks ==
    [kind |-> "object", name |-> Some("Main"), desks |-> [kind |-> "undefined"]]
AreaDesksNotArray ==
    [kind |-> "object", name |-> Some("Main"), desks |-> [kind |-> "object"]]
NullArea == [kind |-> "null"]

\* a desk whose title is a JSON number, not a string
NumberTitle == <<"number", 7>>
NumberTitledDesk ==
    [id |-> Some(2), zoneId |-> Some(902), position |-> Some(<<3, 4>>),
     title |-> NumberTitle, status |-> None]

\* The floorConfig texts: text that is not JSON, the JSON null, objects
\* whose areas property is missing, null or not an array, and objects with
\* an areas array.
WellFormedConfigs ==
    {JsonObject(AreasOf(<<>>))}
    \cup {JsonObject(AreasOf(AreaSplit(p[1], p[2]))) :
             p \in {q \in DeskObjectLists \X CutLists :
                       IsSplitOf(q[1], q[2])}}

OddConfigs ==
    {[kind |-> "invalid"], [kind |-> "null"],
     JsonObject([kind |-> "undefined"]), JsonObject([kind |-> "null"]),
     JsonObject([kind |-> "object"]),
     JsonObject(AreasOf(<<AreaWithoutDesks>>)),
     JsonObject(AreasOf(<<AreaDesksNotArray>>)),
     JsonObject(AreasOf(<<NullArea>>))}
    \cup {JsonObject(AreasOf(<<AreaOf(<<d>>), NullArea>>)) : d \in DeskObjects}
    \cup {JsonObject(AreasOf(<<AreaOf(<<d, NumberTitledDesk>>)>>)) :
             d \in DeskObjects}

FloorConfigs == WellFormedConfigs \cup OddConfigs

----------------------------------------------------------------------------
(* WorkspacesApi.parseFloorConfig *)

Digits == {"0", "1", "2"}
DigitValue(ch) == CASE ch = "0" -> 0 [] ch = "1" -> 1 [] ch = "2" -> 2

SingleDigit(chars) == <<Head(chars)>>

\* title.match(/(\d+)/): the first maximal run of digits, <<>> without a match
RECURSIVE DigitRun(_)
DigitRun(chars) ==
    IF chars = <<>> \/ Head(chars) \notin Digits THEN <<>>
    ELSE <<Head(chars)>> \o DigitRun(Tail(chars))

RECURSIVE MatchDigits(_)
MatchDigits(chars) ==
    IF chars = <<>> THEN <<>>
    ELSE IF Head(chars) \in Digits THEN DigitRun(chars)
         ELSE MatchDigits(Tail(chars))

\* parseInt on a run of digits
RECURSIVE ParseIntFrom(_, _)
ParseIntFrom(digits, acc) ==
    IF digits = <<>> THEN acc
    ELSE ParseIntFrom(Tail(digits), 10 * acc + DigitValue(Head(digits)))

\* desk.title?.match(/(\d+)/) and parseInt(deskNumberMatch[1]), else null
ExtractDeskNumber(title) ==
    IF title = None THEN None
    ELSE LET run == MatchDigits(title[1])
         IN  IF run = <<>> THEN None ELSE Some(ParseIntFrom(run, 0))

\* the collation order of the characters: digits before letters
CollationRank(ch) ==
    CASE ch \in Digits -> DigitValue(ch)
      [] ch = "A" -> 10
      [] ch = "B" -> 11
      [] ch = "C" -> 12

\* String.prototype.localeCompare on such strings
RECURSIVE localeCompare(_, _)
localeCompare(a, b) ==
    IF a = <<>> /\ b = <<>> THEN 0
    ELSE IF a = <<>> THEN -1
    ELSE IF b = <<>> THEN 1
    ELSE IF CollationRank(Head(a)) < CollationRank(Head(b)) THEN -1
    ELSE IF CollationRank(Head(a)) > CollationRank(Head(b)) THEN 1
    ELSE localeCompare(Tail(a), Tail(b))

\* a.title || ''
TitleOrEmpty(desk) == IF desk.title = None THEN <<>> ELSE desk.title[1]

\* the comparator of allDesks.sort
CompareDesks(a, b) ==
    IF a.deskNumber # None /\ b.deskNumber # None
    THEN a.deskNumber[1] - b.deskNumber[1]
    ELSE localeCompare(TitleOrEmpty(a), TitleOrEmpty(b))

ByDeskNumber(arr) ==
    [p \in (1..Len(arr)) \X (1..Len(arr)) |->
        CompareDesks(arr[p[1]], arr[p[2]])]

\* the DeskInfo pushed for a desk object of an area
DeskInfoOf(desk, area) ==
    [id |-> desk.id, title |-> desk.title,
     deskNumber |-> ExtractDeskNumber(desk.title),
     zoneId |-> desk.zoneId, areaName |-> area.name,
     status |-> IF desk.status = None THEN Some("unknown") ELSE desk.status]

\* The index of the first desk whose title has no match method
\* (desk.title?.match throws a TypeError on a number), 0 when there is none
FirstNumberTitle(deskObjects) ==
    FindIndex(deskObjects,
              {d \in Range(deskObjects) : d.title = NumberTitle})

CollectAndSwallow(areaItems, allDesks) ==
    [threw |-> FALSE,
     allDesks |-> allDesks \o
        IF areaItems # <<>> /\ Head(areaItems).kind # "null"
           /\ Head(areaItems).desks.kind = "array"
        THEN LET items == Head(areaItems).desks.items
                 k == FirstNumberTitle(items)
                 n == IF k = 0 THEN Len(items) ELSE k - 1
             IN  [i \in 1..n |-> DeskInfoOf(items[i], Head(areaItems))]
        ELSE <<>>]

\* What the loops over the areas and their desks do: the desks collected,
\* and whether a TypeError ended the loops (an area that is null, a desk
\* whose title is a number).
RECURSIVE CollectDesks(_, _)
CollectDesks(areaItems, allDesks) ==
    IF areaItems = <<>> THEN [threw |-> FALSE, allDesks |-> allDesks]
    ELSE LET area == Head(areaItems)
         IN  IF area.kind = "null"
             THEN [threw |-> TRUE, allDesks |-> allDesks]
             ELSE IF area.desks.kind = "array"
             THEN LET k == FirstNumberTitle(area.desks.items)
                  IN  IF k # 0
                      THEN [threw |-> TRUE,
                            allDesks |-> allDesks \o
                               [i \in 1..(k - 1) |->
                                   DeskInfoOf(area.desks.items[i], area)]]
                      ELSE CollectDesks(Tail(areaItems),
                             allDesks \o [i \in 1..Len(area.desks.items) |->
                                   DeskInfoOf(area.desks.items[i], area)])
             ELSE CollectDesks(Tail(areaItems), allDesks)

ParseError == Throw("Failed to parse floor configuration JSON")

parseFloorConfig(json) ==
    IF json.kind = "invalid" THEN ParseError        \* JSON.parse throws
    ELSE IF json.kind = "null" THEN ParseError      \* null.areas
    ELSE IF json.areas.kind \in {"undefined", "null"}
    THEN Return(<<>>)                               \* floorConfig.areas || []
    ELSE IF json.areas.kind = "object" THEN ParseError   \* not iterable
    ELSE LET collected == CollectDesks(json.areas.items, <<>>)
         IN  IF collected.threw THEN ParseError
             ELSE Return(ArraySort(collected.allDesks,
                                   ByDeskNumber(collected.allDesks)))

\* SpatialUtils.parseFloorConfig: JSON.parse and nothing else
spatialParseFloorConfig(json) ==
    IF json.kind = "invalid" THEN Throw("Failed to parse floor config")
    ELSE Return(<<json>>)

\* parseInt(desk.zoneId): the number, NaN for a zoneId that is absent
NotANumber == <<"NaN", "NaN">>
ParseZoneId(zoneId) == IF zoneId = None THEN NotANumber ELSE zoneId

LookupRethrown == Throw("Error looking up desk zone ID")

\* catch (error) { console.error(...); return null; }
LookupFailed == Return(<<None>>)

\* WorkspacesApi.findDeskZoneId on a fetched floor configuration
findDeskZoneId(deskNumber, json) ==
    LET parsed == parseFloorConfig(json)
    IN  IF parsed.kind = "throw" THEN LookupFailed
        ELSE LET k == FindIndex(parsed.value,
                          {d \in Range(parsed.value) :
                              d.deskNumber = Some(deskNumber)})
             IN  IF k = 0 THEN Return(<<None>>)
                 ELSE Return(<<ParseZoneId(parsed.value[k].zoneId)>>)

\* the loop of _lookupDeskZoneId over the areas: the zoneId of the first
\* desk with the id, null when no area has one or a TypeError is caught
RECURSIVE LookupInAreas(_, _)
LookupInAreas(deskId, areaItems) ==
    IF areaItems = <<>> THEN Return(<<None>>)
    ELSE LET area == Head(areaItems)
         IN  IF area.kind = "null" THEN LookupFailed
             ELSE IF area.desks.kind = "array"
             THEN LET k == FindIndex(area.desks.items,
                              {d \in Range(area.desks.items) :
                                  d.id = Some(deskId)})
                  IN  IF k # 0 THEN Return(<<area.desks.items[k].zoneId>>)
                      ELSE LookupInAreas(deskId, Tail(areaItems))
             ELSE LookupInAreas(deskId, Tail(areaItems))

\* DeskbirdMcpServer._lookupDeskZoneId on a fetched floor configuration
lookupDeskZoneId(deskId, json) ==
    IF json.kind \in {"invalid", "null"} THEN LookupFailed
    ELSE IF json.areas.kind \in {"undefined", "null"} THEN Return(<<None>>)
    ELSE IF json.areas.kind = "object" THEN LookupFailed
    ELSE LookupInAreas(deskId, json.areas.items)

\* handleGetUserFavorites: deskMapping[desk.zoneId] = desk.id over all desks
\* of all areas, inside a try whose catch only warns
RECURSIVE MapDesks(_, _)
MapDesks(deskObjects, map) ==
    IF deskObjects = <<>> THEN map
    ELSE MapDesks(Tail(deskObjects),
                  MapSet(map, Head(deskObjects).zoneId, Head(deskObjects).id))

RECURSIVE MapAreas(_, _)
MapAreas(areaItems, map) ==
    IF areaItems = <<>> THEN map
    ELSE LET area == Head(areaItems)
         IN  IF area.kind = "null" THEN map          \* TypeError, caught
             ELSE IF area.desks.kind = "array"
             THEN MapAreas(Tail(areaItems), MapDesks(area.desks.items, map))
             ELSE MapAreas(Tail(areaItems), map)

buildDeskMapping(json) ==
    IF json.kind \in {"invalid", "null"} THEN EmptyMap
    ELSE IF json.areas.kind # "array" THEN EmptyMap
    ELSE MapAreas(json.areas.items, EmptyMap)

----------------------------------------------------------------------------
(* SpatialUtils on a parsed floor configuration *)

FirstAreaOnly(areaItems) ==
    IF areaItems = <<>> THEN <<>> ELSE Head(areaItems).desks.items

\* floorConfig.areas.flatMap(area => area.desks)
RECURSIVE FlatMapDesks(_)
FlatMapDesks(areaItems) ==
    IF areaItems = <<>> THEN <<>>
    ELSE Head(areaItems).desks.items \o FlatMapDesks(Tail(areaItems))

\* the loop of findDeskInFloorConfig: the first desk with the id in the
\* first area that has one, None (null) when no area has one
RECURSIVE FindInAreas(_, _)
FindInAreas(deskId, areaItems) ==
    IF areaItems = <<>> THEN None
    ELSE LET areaDesks == Head(areaItems).desks.items
             k == FindIndex(areaDesks,
                            {d \in Range(areaDesks) : d.id = deskId})
         IN  IF k # 0 THEN Some(areaDesks[k])
             ELSE FindInAreas(deskId, Tail(areaItems))

findDeskInFloorConfig(deskId, floorConfig) ==
    FindInAreas(deskId, floorConfig.areas.items)

\* the arguments generateDeskSpatialSummary passes on
SummaryRadius == 50
SummaryCount == 5
SummaryColleagueRadius == 50
SummaryTolerance == 5

ThrowOnMissingTarget == Throw("Target desk not found")

\* if (!targetDesk) return { targetDesk: null, ...four empty lists }
SummaryOfMissingTarget ==
    Return(<<[targetDesk |-> None, nearbyDesks |-> <<>>,
              availableNearby |-> <<>>, nearbyColleagues |-> <<>>,
              sameRowDesks |-> <<>>]>>)

generateDeskSpatialSummary(targetDeskId, floorConfig, zoneItems) ==
    LET allDesks == FlatMapDesks(floorConfig.areas.items)
        targetDesk == findDeskInFloorConfig(targetDeskId, floorConfig)
    IN  IF targetDesk = None THEN SummaryOfMissingTarget
        ELSE LET nearbyDesks ==
                     findDesksWithinRadius(targetDeskId, allDesks,
                                           SummaryRadius)
                 availableNearby ==
                     findClosestAvailableDesks(targetDeskId, allDesks,
                                               zoneItems, SummaryCount)
                 nearbyColleagues ==
                     findNearbyColleagues(targetDeskId, allDesks, zoneItems,
                                          SummaryColleagueRadius)
                 sameRowDesks ==
                     findDesksInSameRow(targetDeskId, allDesks,
                                        SummaryTolerance)
             IN  IF nearbyDesks.kind = "throw" THEN nearbyDesks
                 ELSE IF availableNearby.kind = "throw" THEN availableNearby
                 ELSE IF nearbyColleagues.kind = "throw" THEN nearbyColleagues
                 ELSE IF sameRowDesks.kind = "throw" THEN sameRowDesks
                 ELSE Return(<<[targetDesk |-> targetDesk,
                                nearbyDesks |-> nearbyDesks.value,
                                availableNearby |-> availableNearby.value,
                                nearbyColleagues |-> nearbyColleagues.value,
                                sameRowDesks |-> sameRowDesks.value]>>)

----------------------------------------------------------------------------
(* Specification of the floor configuration parsers *)

DeskNumbers == {1, 2, 10}

InitParse ==
    /\ desks = <<>>
    /\ occupancyData = <<>>
    /\ floorConfigJson \in FloorConfigs
    /\ call = NoCall
    /\ result = NoResult
    /\ SdkNotCreated

CallParseFloorConfig ==
    /\ call = NoCall
    /\ call' = [op |-> "parseFloorConfig"]
    /\ result' = parseFloorConfig(floorConfigJson)
    /\ UNCHANGED <<desks, occupancyData, floorConfigJson, sdkVars>>

CallSpatialParseFloorConfig ==
    /\ call = NoCall
    /\ call' = [op |-> "SpatialUtils.parseFloorConfig"]
    /\ result' = spatialParseFloorConfig(floorConfigJson)
    /\ UNCHANGED <<desks, occupancyData, floorConfigJson, sdkVars>>

CallFindDeskZoneId ==
    \E deskNumber \in DeskNumbers :
        /\ call = NoCall
        /\ call' = [op |-> "findDeskZoneId", deskNumber |-> deskNumber]
        /\ result' = findDeskZoneId(deskNumber, floorConfigJson)
        /\ UNCHANGED <<desks, occupancyData, floorConfigJson, sdkVars>>

CallBuildDeskMapping ==
    /\ call = NoCall
    /\ call' = [op |-> "deskMapping"]
    /\ result' = Return(<<buildDeskMapping(floorConfigJson)>>)
    /\ UNCHANGED <<desks, occupancyData, floorConfigJson, sdkVars>>

CallLookupDeskZoneId ==
    \E deskId \in DeskIds :
        /\ call = NoCall
        /\ call' = [op |-> "_lookupDeskZoneId", deskId |-> deskId]
        /\ result' = lookupDeskZoneId(deskId, floorConfigJson)
        /\ UNCHANGED <<desks, occupancyData, floorConfigJson, sdkVars>>

\* findDeskInFloorConfig takes a ParsedFloorConfig: an areas array whose
\* areas each carry a desks array
CallFindDeskInFloorConfig ==
    \E deskId \in DeskIds :
        /\ call = NoCall
        /\ floorConfigJson \in WellFormedConfigs
        /\ call' = [op |-> "findDeskInFloorConfig", deskId |-> deskId]
        /\ result' = Return(<<findDeskInFloorConfig(Some(deskId),
                                                    floorConfigJson)>>)
        /\ UNCHANGED <<desks, occupancyData, floorConfigJson, sdkVars>>

NextParse ==
    \/ CallParseFloorConfig
    \/ CallSpatialParseFloorConfig
    \/ CallFindDeskZoneId
    \/ CallBuildDeskMapping
    \/ CallLookupDeskZoneId
    \/ CallFindDeskInFloorConfig

SpecParse == InitParse /\ [][NextParse]_vars

----------------------------------------------------------------------------
(* Properties of the floor configuration parsers *)

\* the payload is an object with an areas array of area objects
HasAreasArray ==
    /\ floorConfigJson.kind = "object"
    /\ floorConfigJson.areas.kind = "array"

WellFormed ==
    /\ HasAreasArray
    /\ \A i \in 1..Len(floorConfigJson.areas.items) :
          /\ floorConfigJson.areas.items[i].kind = "object"
          /\ floorConfigJson.areas.items[i].desks.kind = "array"

\* the desk objects of the payload, area after area
RECURSIVE Flatten(_)
Flatten(areaItems) ==
    IF areaItems = <<>> THEN <<>>
    ELSE Head(areaItems).desks.items \o Flatten(Tail(areaItems))

ConfigDesks == Flatten(floorConfigJson.areas.items)

\* the desk number a title shows, read off the title pool
ShownNumber(title) ==
    CASE title \in {Some(<<"1">>), Some(<<"B", "1">>)} -> Some(1)
      [] title \in {Some(<<"2">>), Some(<<"2", "A", "1">>)} -> Some(2)
      [] title = Some(<<"1", "0">>) -> Some(10)
      [] OTHER -> None

SharedDeskNumber(n) ==
    \E i, j \in 1..Len(ConfigDesks) :
        /\ i # j
        /\ ShownNumber(ConfigDesks[i].title) = Some(n)
        /\ ShownNumber(ConfigDesks[j].title) = Some(n)

SharedZoneId ==
    \E i, j \in 1..Len(ConfigDesks) :
        i # j /\ ConfigDesks[i].zoneId = ConfigDesks[j].zoneId

SharedId ==
    \E i, j \in 1..Len(ConfigDesks) :
        /\ i # j
        /\ ConfigDesks[i].id # None
        /\ ConfigDesks[i].id = ConfigDesks[j].id

(* C7 as stated: building the desk identity index fails (DuplicateIdentifier)
   whenever two desks of the floor share a non-null deskNumber, an id or a
   zoneId, and a lookup by a shared identifier never resolves to one of the
   desks sharing it. *)
C7_DuplicateIdentifierRejected ==
    WellFormed =>
        /\ (call.op = "findDeskZoneId" /\ SharedDeskNumber(call.deskNumber))
              => (result.kind = "throw" \/ result.value = <<None>>)
        /\ (call.op = "parseFloorConfig"
              /\ (SharedId \/ SharedZoneId
                    \/ \E n \in DeskNumbers : SharedDeskNumber(n)))
              => result.kind = "throw"
        /\ (call.op = "deskMapping" /\ SharedZoneId)
              => (result.kind = "throw" \/ result.value = <<EmptyMap>>)

(* C8 as stated: floor-config parsing fails (MalformedFloorConfig) when the
   text is not valid JSON and when the parsed JSON lacks an areas array; it
   never returns a desk list for a payload without an areas array. *)
C8_MalformedFloorConfigRejected ==
    (call.op \in {"parseFloorConfig", "SpatialUtils.parseFloorConfig"}
        /\ ~HasAreasArray) => result.kind = "throw"

CompleteDesks ==
    {i \in 1..Len(ConfigDesks) :
        ConfigDesks[i].id # None /\ ConfigDesks[i].position # None}

(* C9 as stated: every desk object missing id or position is skipped, that
   is absent from the returned desk list, without an error being raised. *)
C9_PartialDesksSkipped ==
    (call.op = "parseFloorConfig" /\ WellFormed) =>
        /\ result.kind = "return"
        /\ Len(result.value) = Cardinality(CompleteDesks)
        /\ \A i \in 1..Len(result.value) : result.value[i].id # None

(* C10 as stated: the sorted desk list holds all desks with a desk number
   first, in ascending desk number order, followed by all desks without one,
   ordered lexicographically by title, for every set and order of desks. *)
C10_NumberedFirstThenByTitle ==
    (call.op = "parseFloorConfig" /\ result.kind = "return") =>
        \A i, j \in 1..Len(result.value) :
            i < j =>
                LET a == result.value[i]
                    b == result.value[j]
                IN  /\ (a.deskNumber # None /\ b.deskNumber # None)
                          => a.deskNumber[1] <= b.deskNumber[1]
                    /\ a.deskNumber = None => b.deskNumber = None
                    /\ (a.deskNumber = None /\ b.deskNumber = None)
                          => localeCompare(TitleOrEmpty(a), TitleOrEmpty(b)) <= 0

----------------------------------------------------------------------------
(* Properties of the derived desk number *)

IsDecimal(ch) == ch \in {"0", "1", "2", "3", "4", "5", "6", "7", "8", "9"}

DecimalValue(ch) ==
    CASE ch = "0" -> 0 [] ch = "1" -> 1 [] ch = "2" -> 2 [] ch = "3" -> 3
      [] ch = "4" -> 4 [] ch = "5" -> 5 [] ch = "6" -> 6 [] ch = "7" -> 7
      [] ch = "8" -> 8 [] ch = "9" -> 9

RECURSIVE Pow10(_)
Pow10(n) == IF n = 0 THEN 1 ELSE 10 * Pow10(n - 1)

\* the number written by the characters s..e of t
RECURSIVE NumberWritten(_, _, _)
NumberWritten(t, s, e) ==
    IF s > e THEN 0
    ELSE DecimalValue(t[s]) * Pow10(e - s) + NumberWritten(t, s + 1, e)

\* the number a title shows: its first maximal run of decimal digits
ExpectedDeskNumber(title) ==
    IF title = None THEN None
    ELSE LET t == title[1]
             digitsAt == {i \in 1..Len(t) : IsDecimal(t[i])}
         IN  IF digitsAt = {} THEN None
             ELSE LET s == CHOOSE i \in digitsAt : \A j \in digitsAt : i <= j
                      e == CHOOSE k \in s..Len(t) :
                              /\ \A j \in s..k : IsDecimal(t[j])
                              /\ k = Len(t) \/ ~IsDecimal(t[k + 1])
                  IN  Some(NumberWritten(t, s, e))

ParseCall == call.op = "parseFloorConfig" /\ result.kind = "return"

(* C11: every parsed desk carries as deskNumber the integer value of the
   first maximal run of decimal digits of its title, and null when the title
   has no digit or is missing; every desk object of the payload is parsed
   so. *)
C11_DeskNumberFromTitle ==
    ParseCall =>
        /\ \A i \in 1..Len(result.value) :
              result.value[i].deskNumber
                  = ExpectedDeskNumber(result.value[i].title)
        /\ WellFormed =>
              \A k \in 1..Len(ConfigDesks) :
                  \E i \in 1..Len(result.value) :
                      /\ result.value[i].title = ConfigDesks[k].title
                      /\ result.value[i].deskNumber
                            = ExpectedDeskNumber(ConfigDesks[k].title)

\* a desk titled "2A1" parsed to number 2 next to a desk titled "10"
C11_Witness ==
    /\ ParseCall
    /\ \E i, j \in 1..Len(result.value) :
          /\ result.value[i].title = Some(<<"2", "A", "1">>)
          /\ result.value[i].deskNumber = Some(2)
          /\ result.value[j].title = Some(<<"1", "0">>)
          /\ result.value[j].deskNumber = Some(10)

----------------------------------------------------------------------------
(* Properties of the queries on a target that the desk list lacks *)

(* C12 as stated: a query whose target id is absent from the desk list
   reports that as a value: findDesksWithinRadius and findDesksInSameRow
   return (an empty or a not-found result) and do not throw. *)
C12_NotFoundIsAValue ==
    (call.op \in {"findDesksWithinRadius", "findDesksInSameRow"}
        /\ ~HasDesk(call.targetDeskId)) => result.kind = "return"

----------------------------------------------------------------------------
(* Properties of findDesksInSameRow *)

SameRowCall ==
    /\ call.op = "findDesksInSameRow"
    /\ HasDesk(call.targetDeskId)

\* |y1 - y2| <= t, without the absolute value
YWithin(p, q, t) == p[2] - q[2] <= t /\ q[2] - p[2] <= t

(* C17: for a target of the desk list, sameRow returns exactly the desks
   other than the target whose Y coordinate differs from the target's by at
   most yTolerance (the boundary included), whatever their X coordinates,
   each once and as it stands in the desk list. *)
C17_SameRowExact ==
    SameRowCall =>
        /\ result.kind = "return"
        /\ ResultIds = {d.id : d \in {e \in Range(desks) :
                            /\ e.id # call.targetDeskId
                            /\ YWithin(e.position,
                                       DeskOf(call.targetDeskId).position,
                                       call.tolerance)}}
        /\ Len(result.value) = Cardinality(ResultIds)
        /\ \A i \in 1..Len(result.value) :
              result.value[i] = DeskOf(result.value[i].id)

\* a desk of another column exactly yTolerance away in Y is returned, and a
\* desk of the target's column farther away in Y is left out
C17_Witness ==
    /\ SameRowCall
    /\ result.kind = "return"
    /\ call.tolerance > 0
    /\ \E i \in 1..Len(result.value) :
          LET r == result.value[i]
              t == DeskOf(call.targetDeskId)
          IN  /\ r.position[1] # t.position[1]
              /\ Abs(r.position[2] - t.position[2]) = call.tolerance
    /\ \E d \in Range(desks) :
          /\ d.id # call.targetDeskId
          /\ d.id \notin ResultIds
          /\ d.position[1] = DeskOf(call.targetDeskId).position[1]

\* the ids sameRow returns for another target of the same desk list
RowOf(id) ==
    LET r == findDesksInSameRow(id, desks, call.tolerance)
    IN  {r.value[i].id : i \in 1..Len(r.value)}

(* C18: row membership is symmetric: for desks A and B of one desk list and
   a tolerance t, B is in sameRow(A, t) exactly when A is in sameRow(B, t). *)
C18_RowSymmetric ==
    (SameRowCall /\ result.kind = "return") =>
        \A b \in Range(desks) :
            b.id # call.targetDeskId =>
                (b.id \in ResultIds <=> call.targetDeskId \in RowOf(b.id))

\* row membership is not transitive: two desks are in the target's row, the
\* target is in the row of each, and they are not in each other's row
C18_Witness ==
    /\ SameRowCall
    /\ result.kind = "return"
    /\ \E a, c \in ResultIds :
          /\ a # c
          /\ call.targetDeskId \in RowOf(a)
          /\ call.targetDeskId \in RowOf(c)
          /\ a \notin RowOf(c)
          /\ Abs(DeskOf(a).position[2] - DeskOf(c).position[2])
                > call.tolerance

----------------------------------------------------------------------------
(* Relations between the results of findDesksWithinRadius *)

\* what withinRadius returns for the same desk list with another target or
\* another radius
RadiusRows(targetDeskId, maxDistance) ==
    findDesksWithinRadius(targetDeskId, desks, maxDistance).value

RadiusIds(targetDeskId, maxDistance) ==
    {RadiusRows(targetDeskId, maxDistance)[i].id :
        i \in 1..Len(RadiusRows(targetDeskId, maxDistance))}

(* C19: for a fixed desk list and target, every desk returned for a radius
   is returned for every larger radius, so the number of results does not
   decrease as the radius grows. *)
C19_RadiusMonotone ==
    (RadiusCall /\ result.kind = "return") =>
        \A r2 \in Radii :
            call.maxDistance <= r2 =>
                /\ ResultIds \subseteq RadiusIds(call.targetDeskId, r2)
                /\ Len(result.value)
                      <= Len(RadiusRows(call.targetDeskId, r2))

\* a radius that returns some desk, and a larger radius that returns more
C19_Witness ==
    /\ RadiusCall
    /\ result.kind = "return"
    /\ Len(result.value) > 0
    /\ \E r2 \in Radii :
          /\ call.maxDistance < r2
          /\ Len(result.value) < Len(RadiusRows(call.targetDeskId, r2))

(* C20: desk distance is symmetric: calculateDeskDistance(A, B) equals
   calculateDeskDistance(B, A), and the distance attached to B in
   withinRadius(A, r) is the distance attached to A in withinRadius(B, r). *)
C20_DistanceSymmetric ==
    /\ call.op = "calculateDeskDistance" =>
          /\ result.value[1]
                = calculateDeskDistance(call.position2, call.position1)
          /\ result.value[1] * result.value[1]
                = DistSq(call.position2, call.position1)
    /\ (RadiusCall /\ result.kind = "return") =>
          \A i \in 1..Len(result.value) :
              LET r == result.value[i]
                  back == RadiusRows(r.id, call.maxDistance)
              IN  \E j \in 1..Len(back) :
                      /\ back[j].id = call.targetDeskId
                      /\ back[j].distance = r.distance

\* a desk at <<0, 0>> returned at distance 5 of a target at <<3, 4>>
C20_Witness ==
    /\ RadiusCall
    /\ result.kind = "return"
    /\ DeskOf(call.targetDeskId).position = <<3, 4>>
    /\ \E i \in 1..Len(result.value) :
          /\ result.value[i].position = <<0, 0>>
          /\ result.value[i].distance = 5

----------------------------------------------------------------------------
(* Specification of the booking time comparison *)

\* booking times are instants 0..MaxTime
MaxTime == 3

Times == 0..MaxTime

\* { startTime, endTime } with any two instants, empty and reversed ranges
\* included
Bookings == [startTime : Times, endTime : Times]

InitTime ==
    /\ desks = <<>>
    /\ occupancyData = <<>>
    /\ floorConfigJson = NoFloorConfig
    /\ call = NoCall
    /\ result = NoResult
    /\ SdkNotCreated

CallHasTimeOverlap ==
    \E booking1 \in Bookings, booking2 \in Bookings :
        /\ call = NoCall
        /\ call' = [op |-> "hasTimeOverlap",
                    booking1 |-> booking1, booking2 |-> booking2]
        /\ result' = Return(<<hasTimeOverlap(booking1, booking2)>>)
        /\ UNCHANGED <<desks, occupancyData, floorConfigJson, sdkVars>>

NextTime == CallHasTimeOverlap

SpecTime == InitTime /\ [][NextTime]_vars

\* a range that holds at least one instant
IsProper(b) == b.startTime < b.endTime

\* the instant t lies in the half-open range [startTime, endTime)
Covers(b, t) == b.startTime <= t /\ t < b.endTime

(* C16: hasTimeOverlap(a, b) is true exactly when a.startTime < b.endTime
   and b.startTime < a.endTime. For ranges that hold an instant this is
   sharing an instant of the half-open ranges: a booking that ends at the
   instant the other starts does not overlap it, and one that ends one unit
   later does. *)
C16_HalfOpenOverlap ==
    call.op = "hasTimeOverlap" =>
        LET a == call.booking1
            b == call.booking2
            overlaps == result.value[1]
        IN  /\ overlaps <=> (a.startTime < b.endTime /\ b.startTime < a.endTime)
            /\ (IsProper(a) /\ IsProper(b)) =>
                  (overlaps <=> \E t \in Times : Covers(a, t) /\ Covers(b, t))
            /\ (IsProper(a) /\ IsProper(b) /\ a.endTime = b.startTime)
                  => ~overlaps
            /\ (IsProper(a) /\ IsProper(b) /\ a.endTime = b.startTime + 1)
                  => overlaps

\* a booking that ends at the instant the other starts: no overlap
C16_Witness ==
    /\ call.op = "hasTimeOverlap"
    /\ IsProper(call.booking1)
    /\ IsProper(call.booking2)
    /\ call.booking1.endTime = call.booking2.startTime
    /\ result.value = <<FALSE>>

----------------------------------------------------------------------------
(* Specification of the spatial summary *)

\* The floor configuration of a desk list: the first area holds the first
\* desk, the second area the others (no desk at all for a list of at most
\* one desk).
FloorOf(deskList) ==
    LET n == IF Len(deskList) = 0 THEN 0 ELSE 1
    IN  JsonObject(AreasOf(<<AreaOf(SubSeq(deskList, 1, n)),
                             AreaOf(SubSeq(deskList, n + 1, Len(deskList)))>>))

CallGenerateDeskSpatialSummary ==
    \E targetDeskId \in DeskIds :
        /\ call = NoCall
        /\ call' = [op |-> "generateDeskSpatialSummary",
                    targetDeskId |-> targetDeskId,
                    floorConfig |-> FloorOf(desks)]
        /\ result' = generateDeskSpatialSummary(targetDeskId, FloorOf(desks),
                                                occupancyData)
        /\ UNCHANGED <<desks, occupancyData, floorConfigJson, sdkVars>>

NextSummary == CallGenerateDeskSpatialSummary

SpecSummary == InitOccupancy /\ [][NextSummary]_vars

SummaryCall == call.op = "generateDeskSpatialSummary"

(* C13: spatialSummary for a target id that no area of the floor
   configuration holds returns a summary with targetDesk null and the four
   lists empty, and does not throw, whatever the occupancy payload. *)
C13_SummaryOfAbsentTarget ==
    (SummaryCall /\ ~HasDesk(call.targetDeskId)) =>
        /\ result.kind = "return"
        /\ result.value[1].targetDesk = None
        /\ result.value[1].nearbyDesks = <<>>
        /\ result.value[1].availableNearby = <<>>
        /\ result.value[1].nearbyColleagues = <<>>
        /\ result.value[1].sameRowDesks = <<>>

\* an absent target on a floor with desks, one of them reported as booked
C13_Witness ==
    /\ SummaryCall
    /\ ~HasDesk(call.targetDeskId)
    /\ result.kind = "return"
    /\ result.value[1].targetDesk = None
    /\ Len(desks) >= 2
    /\ \E i \in 1..Len(occupancyData) :
          /\ HasDesk(occupancyData[i].order)
          /\ Len(occupancyData[i].users) > 0

\* the payload without the zone items whose order is no desk id of the floor
MatchedZoneItems ==
    SeqFilter(occupancyData,
              {item \in Range(occupancyData) : HasDesk(item.order)})

(* C15: zone items whose order matches no desk id of the floor are dropped:
   the summary, with its nearest-available and nearby-colleagues lists, is
   the one computed from the payload without those zone items, and they
   cause no error. *)
C15_UnmatchedZoneItemsDropped ==
    SummaryCall =>
        /\ result = generateDeskSpatialSummary(call.targetDeskId,
                                               call.floorConfig,
                                               MatchedZoneItems)
        /\ HasDesk(call.targetDeskId) => result.kind = "return"

\* a payload with a free zone item of a desk the floor lacks next to a free
\* zone item of a desk of the floor, which the summary lists as available
C15_Witness ==
    /\ SummaryCall
    /\ HasDesk(call.targetDeskId)
    /\ result.kind = "return"
    /\ \E i \in 1..Len(occupancyData) :
          ~HasDesk(occupancyData[i].order) /\ occupancyData[i].isAvailable
    /\ Len(MatchedZoneItems) = 1
    /\ Len(result.value[1].availableNearby) = 1

----------------------------------------------------------------------------
(* Properties of the lookups that match no desk *)

\* the desk objects a payload holds: those of its areas that carry a desk
\* array, none for a payload without an areas array
RECURSIVE DesksIn(_)
DesksIn(areaItems) ==
    IF areaItems = <<>> THEN {}
    ELSE (IF Head(areaItems).kind = "object"
             /\ Head(areaItems).desks.kind = "array"
          THEN Range(Head(areaItems).desks.items) ELSE {})
         \cup DesksIn(Tail(areaItems))

PayloadDesks ==
    IF HasAreasArray THEN DesksIn(floorConfigJson.areas.items) ELSE {}

PresentIds == {d.id : d \in PayloadDesks}
PresentNumbers ==
    {ExpectedDeskNumber(d.title) :
        d \in {e \in PayloadDesks : e.title # NumberTitle}}

(* C14: a lookup by desk number or by internal id that matches no desk of
   the floor configuration returns null and does not throw: findDeskZoneId,
   _lookupDeskZoneId and findDeskInFloorConfig. *)
C14_LookupMissIsNull ==
    /\ (call.op = "findDeskZoneId"
          /\ Some(call.deskNumber) \notin PresentNumbers)
            => result = Return(<<None>>)
    /\ (call.op \in {"_lookupDeskZoneId", "findDeskInFloorConfig"}
          /\ Some(call.deskId) \notin PresentIds)
            => result = Return(<<None>>)

\* a desk number that none of the two numbered desks of the floor shows
C14_Witness ==
    /\ call.op = "findDeskZoneId"
    /\ WellFormed
    /\ Cardinality(PresentNumbers \ {None}) = 2
    /\ Some(call.deskNumber) \notin PresentNumbers
    /\ result = Return(<<None>>)

----------------------------------------------------------------------------
(* Properties of the spatial summary of a target of the floor *)

SummaryOfTarget == SummaryCall /\ HasDesk(call.targetDeskId)

IdsOf(rows) == {rows[i].id : i \in 1..Len(rows)}

\* the closest available desks, asked for directly and through the summary
NextAvailability ==
    CallFindClosestAvailableDesks \/ CallGenerateDeskSpatialSummary

SpecAvailability == InitOccupancy /\ [][NextAvailability]_vars

\* the rows of the closest available desks of the call
AvailableRows ==
    IF SummaryCall THEN result.value[1].availableNearby ELSE result.value

(* C30: a desk for which the payload holds no zone item with order equal to
   its id is treated as unavailable: findClosestAvailableDesks never returns
   it and it is never in availableNearby of a spatial summary, whatever the
   other zone items say. *)
C30_NoZoneItemMeansUnavailable ==
    result.kind = "return" =>
        \A d \in Range(desks) :
            ~HasEntry(d.id) => d.id \notin IdsOf(AvailableRows)

\* a desk without zone item is left out of a direct answer that had room
\* for it, while a zone item of another floor is free
C30_Witness ==
    /\ ClosestCall
    /\ result.kind = "return"
    /\ \E d \in Range(desks) : d.id # call.targetDeskId /\ ~HasEntry(d.id)
    /\ \E i \in 1..Len(occupancyData) :
          ~HasDesk(occupancyData[i].order) /\ occupancyData[i].isAvailable
    /\ Len(result.value) = 1
    /\ call.count = MaxCount

\* the desks of the floor other than the target
Others == {d \in Range(desks) : d.id # call.targetDeskId}

(* C25: for a target of the floor configuration the summary is the
   composition of the queries over the desks of all areas: targetDesk is the
   desk with the target id, nearbyDesks is withinRadius(target, 50),
   availableNearby is nearestAvailable(target, 5), nearbyColleagues is
   nearbyColleagues(target, 50) and sameRowDesks is sameRow(target, 5). *)
C25_SummaryComposes ==
    SummaryOfTarget =>
        /\ result.kind = "return"
        /\ LET summary == result.value[1]
           IN  /\ summary.targetDesk = Some(DeskOf(call.targetDeskId))
               /\ summary.nearbyDesks
                     = findDesksWithinRadius(call.targetDeskId, desks, 50).value
               /\ IdsOf(summary.nearbyDesks)
                     = {d.id : d \in {e \in Others :
                          AtMost(e.position, TargetPosition, 50)}}
               /\ summary.availableNearby
                     = findClosestAvailableDesks(call.targetDeskId, desks,
                                                 occupancyData, 5).value
               /\ IdsOf(summary.availableNearby) \subseteq AvailableOthers
               /\ Len(summary.availableNearby)
                     = Min2(5, Cardinality(AvailableOthers))
               /\ summary.nearbyColleagues
                     = findNearbyColleagues(call.targetDeskId, desks,
                                            occupancyData, 50).value
               /\ {summary.nearbyColleagues[i].desk.id :
                      i \in 1..Len(summary.nearbyColleagues)}
                     = {d.id : d \in {e \in Others : HasOccupants(e.id)}}
               /\ summary.sameRowDesks
                     = findDesksInSameRow(call.targetDeskId, desks, 5).value
               /\ IdsOf(summary.sameRowDesks)
                     = {d.id : d \in {e \in Others :
                          YWithin(e.position, TargetPosition, 5)}}

\* a target in the second area, with a desk of the first area in its row,
\* a desk out of its row, a free desk and a booked desk
C25_Witness ==
    /\ SummaryOfTarget
    /\ result.kind = "return"
    /\ Len(desks) = MaxDesks
    /\ desks[1].id # call.targetDeskId
    /\ Len(result.value[1].nearbyDesks) = 2
    /\ Len(result.value[1].sameRowDesks) = 1
    /\ Len(result.value[1].availableNearby) = 1
    /\ Len(result.value[1].nearbyColleagues) = 1

----------------------------------------------------------------------------
(* Properties of a parse that fails on the way *)

ParseAttempt == call.op = "parseFloorConfig"

\* the first area is an object with a desks array
FirstAreaHasDesks ==
    /\ HasAreasArray
    /\ floorConfigJson.areas.items # <<>>
    /\ floorConfigJson.areas.items[1].kind = "object"
    /\ floorConfigJson.areas.items[1].desks.kind = "array"

\* an area of the payload is null, or a desk of it has a number for title
FailsOnTheWay ==
    /\ HasAreasArray
    /\ \E i \in 1..Len(floorConfigJson.areas.items) :
          LET area == floorConfigJson.areas.items[i]
          IN  \/ area.kind = "null"
              \/ /\ area.desks.kind = "array"
                 /\ \E j \in 1..Len(area.desks.items) :
                       area.desks.items[j].title = NumberTitle

(* C22: a parse failure never yields a partial result: when
   WorkspacesApi.parseFloorConfig meets an error at a desk or an area of the
   payload (an area that is null, a desk whose title is not a string) it
   throws and returns no desk list, not the desks collected before. *)
C22_NoPartialParse ==
    (ParseAttempt /\ FailsOnTheWay) =>
        /\ result.kind = "throw"
        /\ result.value = <<>>

\* the failure comes after a desk was collected, at the next desk
C22_Witness ==
    /\ ParseAttempt
    /\ FailsOnTheWay
    /\ FirstAreaHasDesks
    /\ Len(floorConfigJson.areas.items[1].desks.items) = 2
    /\ floorConfigJson.areas.items[1].desks.items[1].title # NumberTitle
    /\ floorConfigJson.areas.items[1].desks.items[2].title = NumberTitle
    /\ result.kind = "throw"

\* the failure comes after a desk was collected, at the next area
C22_WitnessArea ==
    /\ ParseAttempt
    /\ FirstAreaHasDesks
    /\ Len(floorConfigJson.areas.items) = 2
    /\ floorConfigJson.areas.items[2].kind = "null"
    /\ result.kind = "throw"

----------------------------------------------------------------------------
(* The queries run on arrays held by reference *)

\* The arrays alive during a call: run.heap[r] is the array with reference
\* r, run.ref the array the next method of the chain is called on.
This(run) == run.heap[run.ref]

Overwritten(run, arr) ==
    [heap |-> [run.heap EXCEPT ![run.ref] = arr], ref |-> run.ref]

\* Array.prototype.filter, map and slice return a new array
Allocated(run, arr) ==
    [heap |-> Append(run.heap, arr), ref |-> Len(run.heap) + 1]

\* Array.prototype.sort sorts the array it is called on and returns it
SortedInPlace(run, c) ==
    [heap |-> [run.heap EXCEPT ![run.ref] = ArraySort(This(run), c)],
     ref |-> run.ref]

Thrown(run) == [heap |-> run.heap, result |-> Throw("Target desk not found")]
Returned(run) == [heap |-> run.heap, result |-> Return(This(run))]

\* findDesksWithinRadius called on the array run.ref
RadiusRun(run, targetDeskId, maxDistance) ==
    LET t == FindTargetDesk(targetDeskId, This(run))
    IN  IF t = 0 THEN Thrown(run)
        ELSE LET targetDesk == This(run)[t]
                 others == Allocated(run, OtherDesks(targetDeskId, This(run)))
                 mapped == Allocated(others,
                     [i \in 1..Len(This(others)) |->
                         WithDistance(This(others)[i], targetDesk)])
                 near == Allocated(mapped,
                     SeqFilter(This(mapped),
                         {d \in Range(This(mapped)) :
                             WithinRadius(d.distance, maxDistance)}))
             IN  Returned(SortedInPlace(near, ByDistance(This(near))))

\* findDesksInSameRow called on the array run.ref
SameRowRun(run, targetDeskId, tolerance) ==
    LET t == FindTargetDesk(targetDeskId, This(run))
    IN  IF t = 0 THEN Thrown(run)
        ELSE Returned(Allocated(run,
                SeqFilter(This(run),
                    {d \in Range(This(run)) :
                        /\ d.id # targetDeskId
                        /\ InSameRow(d, This(run)[t], tolerance)})))

\* findClosestAvailableDesks called on the array run.ref
ClosestRun(run, targetDeskId, zoneItems, count) ==
    LET t == FindTargetDesk(targetDeskId, This(run))
    IN  IF t = 0 THEN Thrown(run)
        ELSE LET targetDesk == This(run)[t]
                 availabilityMap ==
                     BuildAvailabilityMap(zoneItems, This(run), EmptyMap)
                 others == Allocated(run, OtherDesks(targetDeskId, This(run)))
                 mapped == Allocated(others,
                     [i \in 1..Len(This(others)) |->
                         [id |-> This(others)[i].id,
                          zoneId |-> This(others)[i].zoneId,
                          position |-> This(others)[i].position,
                          distance |->
                              calculateDeskDistance(targetDesk.position,
                                                    This(others)[i].position),
                          isAvailable |->
                              AvailabilityOf(availabilityMap,
                                             This(others)[i].id)]])
                 available == Allocated(mapped,
                     SeqFilter(This(mapped),
                               {d \in Range(This(mapped)) : d.isAvailable}))
                 sorted == SortedInPlace(available, ByDistance(This(available)))
             IN  Returned(Allocated(sorted, Truncate(This(sorted), count)))

\* findNearbyColleagues called on the array run.ref
ColleaguesRun(run, targetDeskId, zoneItems, radius) ==
    LET t == FindTargetDesk(targetDeskId, This(run))
    IN  IF t = 0 THEN Thrown(run)
        ELSE LET targetDesk == This(run)[t]
                 occupancyMap ==
                     BuildOccupancyMap(zoneItems, This(run), EmptyMap)
                 others == Allocated(run, OtherDesks(targetDeskId, This(run)))
                 mapped == Allocated(others,
                     [i \in 1..Len(This(others)) |->
                         [desk |-> This(others)[i],
                          distance |->
                              calculateDeskDistance(targetDesk.position,
                                                    This(others)[i].position),
                          users |-> OccupantsOf(occupancyMap,
                                                This(others)[i].id)]])
                 near == Allocated(mapped,
                     SeqFilter(This(mapped),
                               {r \in Range(This(mapped)) :
                                   IsNearbyColleague(r, radius)}))
             IN  Returned(SortedInPlace(near, ByDistance(This(near))))

\* the desks arrays of the areas, by reference: area i holds array i
AreaArrays(floorConfig) ==
    [i \in 1..Len(floorConfig.areas.items) |->
        floorConfig.areas.items[i].desks.items]

\* the floor configuration whose areas hold the arrays of the heap
FloorWith(floorConfig, heap) ==
    JsonObject(AreasOf([i \in 1..Len(floorConfig.areas.items) |->
                           AreaOf(heap[i])]))

\* generateDeskSpatialSummary: flatMap returns a new array, allDesks, and
\* the four queries are called on it one after the other
SummaryRun(targetDeskId, floorConfig, zoneItems) ==
    LET areas == AreaArrays(floorConfig)
        allDesks == [heap |-> Append(areas, FlatMapDesks(floorConfig.areas.items)),
                     ref |-> Len(areas) + 1]
        targetDesk == findDeskInFloorConfig(targetDeskId, floorConfig)
    IN  IF targetDesk = None
        THEN [heap |-> allDesks.heap, result |-> SummaryOfMissingTarget]
        ELSE LET nearbyDesks == RadiusRun(allDesks, targetDeskId, SummaryRadius)
                 availableNearby ==
                     ClosestRun([heap |-> nearbyDesks.heap,
                                 ref |-> allDesks.ref],
                                targetDeskId, zoneItems, SummaryCount)
                 nearbyColleagues ==
                     ColleaguesRun([heap |-> availableNearby.heap,
                                    ref |-> allDesks.ref],
                                   targetDeskId, zoneItems,
                                   SummaryColleagueRadius)
                 sameRowDesks ==
                     SameRowRun([heap |-> nearbyColleagues.heap,
                                 ref |-> allDesks.ref],
                                targetDeskId, SummaryTolerance)
             IN  [heap |-> sameRowDesks.heap,
                  result |->
                     IF nearbyDesks.result.kind = "throw"
                     THEN nearbyDesks.result
                     ELSE IF availableNearby.result.kind = "throw"
                     THEN availableNearby.result
                     ELSE IF nearbyColleagues.result.kind = "throw"
                     THEN nearbyColleagues.result
                     ELSE IF sameRowDesks.result.kind = "throw"
                     THEN sameRowDesks.result
                     ELSE Return(<<[targetDesk |-> targetDesk,
                          nearbyDesks |-> nearbyDesks.result.value,
                          availableNearby |-> availableNearby.result.value,
                          nearbyColleagues |-> nearbyColleagues.result.value,
                          sameRowDesks |-> sameRowDesks.result.value]>>)]

\* the desk list passed to a query, as the only array alive
Passed(deskList) == [heap |-> <<deskList>>, ref |-> 1]

----------------------------------------------------------------------------
(* Specification of queries made one after the other on one snapshot *)

\* arguments that keep one, two or all desks of the planned floor
FrameRadii == {5, 8}
FrameTolerances == {0, 4}

\* the desks of the planned floor, all present, in any list order
FrameDeskLists == {s \in PlanDeskLists : Len(s) = MaxDesks}

\* one zone item for each of the first MaxZoneItems desks, free or booked
FrameZoneItemLists ==
    {s \in ZoneItemLists :
        /\ Len(s) = MaxZoneItems
        /\ \A i \in 1..Len(s) :
              s[i].order = i /\ (s[i].isAvailable \/ s[i].users # <<>>)}

InitFrame ==
    /\ desks \in FrameDeskLists
    /\ occupancyData \in FrameZoneItemLists
    /\ floorConfigJson = FloorOf(desks)
    /\ call = NoCall
    /\ result = NoResult
    /\ SdkNotCreated

\* a snapshot takes two queries: the first one, then one more
FirstOrSecond == IF call = NoCall THEN TRUE ELSE call.nth = 1
Nth == IF call = NoCall THEN 1 ELSE 2

QueryFindDesksWithinRadius ==
    \E targetDeskId \in DeskIds, maxDistance \in FrameRadii :
        LET run == RadiusRun(Passed(desks), targetDeskId, maxDistance)
        IN  /\ FirstOrSecond
            /\ call' = [op |-> "findDesksWithinRadius", nth |-> Nth,
                        targetDeskId |-> targetDeskId,
                        maxDistance |-> maxDistance]
            /\ result' = run.result
            /\ desks' = run.heap[1]
            /\ UNCHANGED <<occupancyData, floorConfigJson, sdkVars>>

QueryFindDesksInSameRow ==
    \E targetDeskId \in DeskIds, tolerance \in FrameTolerances :
        LET run == SameRowRun(Passed(desks), targetDeskId, tolerance)
        IN  /\ FirstOrSecond
            /\ call' = [op |-> "findDesksInSameRow", nth |-> Nth,
                        targetDeskId |-> targetDeskId, tolerance |-> tolerance]
            /\ result' = run.result
            /\ desks' = run.heap[1]
            /\ UNCHANGED <<occupancyData, floorConfigJson, sdkVars>>

QueryFindClosestAvailableDesks ==
    \E targetDeskId \in DeskIds :
        LET run == ClosestRun(Passed(desks), targetDeskId, occupancyData,
                              MaxCount)
        IN  /\ FirstOrSecond
            /\ call' = [op |-> "findClosestAvailableDesks", nth |-> Nth,
                        targetDeskId |-> targetDeskId, count |-> MaxCount]
            /\ result' = run.result
            /\ desks' = run.heap[1]
            /\ UNCHANGED <<occupancyData, floorConfigJson, sdkVars>>

QueryFindNearbyColleagues ==
    \E targetDeskId \in DeskIds :
        LET run == ColleaguesRun(Passed(desks), targetDeskId, occupancyData, 8)
        IN  /\ FirstOrSecond
            /\ call' = [op |-> "findNearbyColleagues", nth |-> Nth,
                        targetDeskId |-> targetDeskId, radius |-> 8]
            /\ result' = run.result
            /\ desks' = run.heap[1]
            /\ UNCHANGED <<occupancyData, floorConfigJson, sdkVars>>

QueryGenerateDeskSpatialSummary ==
    \E targetDeskId \in DeskIds :
        LET run == SummaryRun(targetDeskId, floorConfigJson, occupancyData)
        IN  /\ FirstOrSecond
            /\ call' = [op |-> "generateDeskSpatialSummary", nth |-> Nth,
                        targetDeskId |-> targetDeskId]
            /\ result' = run.result
            /\ floorConfigJson' = FloorWith(floorConfigJson, run.heap)
            /\ UNCHANGED <<desks, occupancyData, sdkVars>>

NextFrame ==
    \/ QueryFindDesksWithinRadius
    \/ QueryFindDesksInSameRow
    \/ QueryFindClosestAvailableDesks
    \/ QueryFindNearbyColleagues
    \/ QueryGenerateDeskSpatialSummary

SpecFrame == InitFrame /\ [][NextFrame]_vars

\* the result of the query of a call when it is run alone on a snapshot
Alone(c, deskList, floorConfig, zoneItems) ==
    CASE c.op = "findDesksWithinRadius" ->
           findDesksWithinRadius(c.targetDeskId, deskList, c.maxDistance)
      [] c.op = "findDesksInSameRow" ->
           findDesksInSameRow(c.targetDeskId, deskList, c.tolerance)
      [] c.op = "findClosestAvailableDesks" ->
           findClosestAvailableDesks(c.targetDeskId, deskList, zoneItems,
                                     c.count)
      [] c.op = "findNearbyColleagues" ->
           findNearbyColleagues(c.targetDeskId, deskList, zoneItems, c.radius)
      [] c.op = "generateDeskSpatialSummary" ->
           generateDeskSpatialSummary(c.targetDeskId, floorConfig, zoneItems)

(* C26: every spatial query is side-effect free: findDesksWithinRadius,
   findDesksInSameRow, findClosestAvailableDesks, findNearbyColleagues and
   generateDeskSpatialSummary leave the desk list passed (contents and
   order), the floor configuration and the occupancy payload as they were,
   and a query made after another one returns what it returns when run
   alone on the snapshot. *)
C26_QueriesLeaveSnapshot ==
    [][/\ desks' = desks
       /\ floorConfigJson' = floorConfigJson
       /\ occupancyData' = occupancyData
       /\ result' = Alone(call', desks, floorConfigJson, occupancyData)]_vars

\* a second query, after a first one whose sort reordered its rows
C26_Witness ==
    /\ call.op = "findDesksWithinRadius"
    /\ call.nth = 2
    /\ result.kind = "return"
    /\ Len(result.value) = 2
    /\ InputIndex(result.value[1].id) > InputIndex(result.value[2].id)
    /\ result.value[1].distance < result.value[2].distance

----------------------------------------------------------------------------
(* Specification of the favorite and unfavorite desk tools *)

\* PATCH /user/favoriteResource with body { id }
FavoriteRequest(zoneId) ==
    [method |-> "PATCH", path |-> "/user/favoriteResource", id |-> zoneId]

\* DELETE /user/favoriteResource/{id}
UnfavoriteRequest(zoneId) ==
    [method |-> "DELETE", path |-> "/user/favoriteResource/{id}",
     id |-> zoneId]

\* the request of _favoriteDeskApiCall ("PATCH") or _unfavoriteDeskApiCall
\* ("DELETE") for a zone id
ApiRequest(method, zoneId) ==
    IF method = "PATCH" THEN FavoriteRequest(zoneId)
    ELSE UnfavoriteRequest(zoneId)

\* what a tool handler leaves: the requests it sent for the desk and the
\* isError flag of the CallToolResult it returns
ToolResult(requests, isError) ==
    [kind |-> "return", value |-> requests, isError |-> isError]

\* handleFavoriteDesk and handleUnfavoriteDesk of the server that calls the
\* API itself: the zone id comes from _lookupDeskZoneId(params.desk_id)
handleDeskTool(desk_id, json, method, success) ==
    IF desk_id = 0 THEN ToolResult(<<>>, TRUE)       \* !params.desk_id
    ELSE LET zoneId == lookupDeskZoneId(desk_id, json).value[1]
         IN  IF zoneId = None THEN ToolResult(<<>>, TRUE)     \* !zoneId
             ELSE ToolResult(<<ApiRequest(method, zoneId[1])>>, ~success)

\* handleFavoriteDeskWithSdk and handleUnfavoriteDeskWithSdk: the zone id
\* comes from findDeskZoneId(deskNumber) in favoriteDeskByNumber and
\* unfavoriteDeskByNumber
handleDeskToolWithSdk(desk_id, json, method, success) ==
    IF desk_id = 0 THEN ToolResult(<<>>, TRUE)       \* !params.desk_id
    ELSE LET zoneId == findDeskZoneId(desk_id, json).value[1]
         IN  IF zoneId \in {None, NotANumber}          \* !zoneId
             THEN ToolResult(<<>>, TRUE)
             ELSE ToolResult(<<ApiRequest(method, zoneId[1])>>, ~success)

\* desk_id arguments: none (0), and the desk numbers of the titles
ToolDeskIds == {0} \cup DeskNumbers

InitFavorite ==
    /\ desks = <<>>
    /\ occupancyData = <<>>
    /\ floorConfigJson \in FloorConfigs
    /\ call = NoCall
    /\ result = NoResult
    /\ SdkNotCreated

CallHandleFavoriteDesk ==
    \E desk_id \in ToolDeskIds, success \in BOOLEAN :
        /\ call = NoCall
        /\ call' = [op |-> "handleFavoriteDesk", desk_id |-> desk_id]
        /\ result' = handleDeskTool(desk_id, floorConfigJson,
                                    "PATCH", success)
        /\ UNCHANGED <<desks, occupancyData, floorConfigJson, sdkVars>>

CallHandleUnfavoriteDesk ==
    \E desk_id \in ToolDeskIds, success \in BOOLEAN :
        /\ call = NoCall
        /\ call' = [op |-> "handleUnfavoriteDesk", desk_id |-> desk_id]
        /\ result' = handleDeskTool(desk_id, floorConfigJson,
                                    "DELETE", success)
        /\ UNCHANGED <<desks, occupancyData, floorConfigJson, sdkVars>>

CallHandleFavoriteDeskWithSdk ==
    \E desk_id \in ToolDeskIds, success \in BOOLEAN :
        /\ call = NoCall
        /\ call' = [op |-> "handleFavoriteDeskWithSdk", desk_id |-> desk_id]
        /\ result' = handleDeskToolWithSdk(desk_id, floorConfigJson,
                                           "PATCH", success)
        /\ UNCHANGED <<desks, occupancyData, floorConfigJson, sdkVars>>

CallHandleUnfavoriteDeskWithSdk ==
    \E desk_id \in ToolDeskIds, success \in BOOLEAN :
        /\ call = NoCall
        /\ call' = [op |-> "handleUnfavoriteDeskWithSdk", desk_id |-> desk_id]
        /\ result' = handleDeskToolWithSdk(desk_id, floorConfigJson,
                                           "DELETE", success)
        /\ UNCHANGED <<desks, occupancyData, floorConfigJson, sdkVars>>

NextFavorite ==
    \/ CallHandleFavoriteDesk
    \/ CallHandleUnfavoriteDesk
    \/ CallHandleFavoriteDeskWithSdk
    \/ CallHandleUnfavoriteDeskWithSdk

SpecFavorite == InitFavorite /\ [][NextFavorite]_vars

\* a request was sent for the zone id of a desk whose title shows desk_id
SentForDeskNumbered ==
    /\ result.value # <<>>
    /\ \E d \in PayloadDesks :
          /\ d.title # NumberTitle
          /\ ExpectedDeskNumber(d.title) = Some(call.desk_id)
          /\ d.zoneId = Some(result.value[1].id)

(* C23: the desk_id argument of the favorite and unfavorite tools is the
   desk number of the title: a request the tool sends for desk_id = n is
   sent for the zoneId of a desk whose title shows the number n. *)
C23_FavoriteByDeskNumber ==
    (call.op \in {"handleFavoriteDesk", "handleUnfavoriteDesk",
                  "handleFavoriteDeskWithSdk", "handleUnfavoriteDeskWithSdk"}
       /\ result.value # <<>>)
        => SentForDeskNumbered

\* the same for the handlers that go through the SDK
FavoriteWithSdkByDeskNumber ==
    (call.op \in {"handleFavoriteDeskWithSdk", "handleUnfavoriteDeskWithSdk"}
       /\ result.value # <<>>)
        => SentForDeskNumbered

----------------------------------------------------------------------------
(* Specification of the book-desk tool *)

\* A date argument: a year, a month and a day as the text YYYY-MM-DD names
\* them, a day the month lacks included
BookingDates ==
    {[year |-> y, month |-> m, day |-> d] :
        y \in {2023, 2024}, m \in {2, 3}, d \in 1..31}

IsLeapYear(year) ==
    year % 4 = 0 /\ (year % 100 # 0 \/ year % 400 = 0)

DaysInMonth(year, month) ==
    CASE month = 2 -> IF IsLeapYear(year) THEN 29 ELSE 28
      [] month \in {4, 6, 9, 11} -> 30
      [] OTHER -> 31

\* DateTime.fromISO(...).isValid for a text of the form YYYY-MM-DD
IsValidDate(date) ==
    /\ date.month \in 1..12
    /\ date.day \in 1..DaysInMonth(date.year, date.month)

\* Date.UTC(year, month - 1, day) in days since 1970-01-01
DaysSinceEpoch(date) ==
    LET y == IF date.month <= 2 THEN date.year - 1 ELSE date.year
        era == y \div 400
        yoe == y - era * 400
        mp == IF date.month > 2 THEN date.month - 3 ELSE date.month + 9
        doy == (153 * mp + 2) \div 5 + date.day - 1
        doe == yoe * 365 + yoe \div 4 - yoe \div 100 + doy
    IN  era * 146097 + doe - 719468

\* Date.prototype.getUTCDay: 0 is Sunday, 1970-01-01 was a Thursday
GetUTCDay(date) == (DaysSinceEpoch(date) + 4) % 7

SundayIsZero(date) == GetUTCDay(date)

\* DateTime.weekday: 1 is Monday and 7 is Sunday
Weekday(date) == IF GetUTCDay(date) = 0 THEN 7 ELSE GetUTCDay(date)

\* DateUtils.isWeekend, and the same test in handleBookDesk
isWeekend(date) == Weekday(date) = 6 \/ Weekday(date) = 7

TokenRequest == [method |-> "POST", path |-> "/v1/token"]
FloorConfigRequest == [method |-> "GET", path |-> "/floorConfig"]
CreateBookingRequest(zoneItemId) ==
    [method |-> "POST", path |-> "/bookings", zoneItemId |-> zoneItemId]

\* DeskbirdMcpServer.handleBookDesk of the server that calls the API itself.
\* in.env: the environment variables are set; in.tokenOk: the token
\* endpoint answers with a token.
handleBookDesk(in) ==
    IF ~in.env THEN ToolResult(<<>>, TRUE)
    ELSE IF in.date = None THEN ToolResult(<<>>, TRUE)     \* !params.date
    ELSE IF in.desk_id = 0 THEN ToolResult(<<>>, TRUE)     \* !params.desk_id
    ELSE IF ~in.tokenOk THEN ToolResult(<<TokenRequest>>, TRUE)
    ELSE IF ~IsValidDate(in.date[1]) THEN ToolResult(<<TokenRequest>>, TRUE)
    ELSE IF isWeekend(in.date[1]) THEN ToolResult(<<TokenRequest>>, FALSE)
    ELSE ToolResult(<<TokenRequest, CreateBookingRequest(in.desk_id)>>,
                    ~in.bookingOk)

\* DateUtils.validateBookingDate(dateString) with the default options
validateBookingDate(date, today) ==
    IF date = None \/ ~IsValidDate(date[1])
    THEN [isValid |-> FALSE, errors |-> <<"Invalid date format">>]
    ELSE LET past == IF DaysSinceEpoch(date[1]) < today
                     THEN <<"Booking date cannot be in the past">> ELSE <<>>
             weekend == IF isWeekend(date[1])
                        THEN <<"Booking date falls on a weekend">> ELSE <<>>
         IN  [isValid |-> past \o weekend = <<>>, errors |-> past \o weekend]

\* DeskbirdMcpServer.handleBookDeskWithSdk. in.sdkOk: initializeSdk returns
\* an SDK that holds a token; in.zoneId: what findDeskZoneId finds for the
\* desk number, 0 for no desk.
handleBookDeskWithSdk(in) ==
    IF ~in.env THEN ToolResult(<<>>, TRUE)
    ELSE IF ~in.tokenOk THEN ToolResult(<<TokenRequest>>, TRUE)
    ELSE IF ~validateBookingDate(in.date, in.today).isValid
    THEN ToolResult(<<TokenRequest>>, TRUE)
    ELSE IF in.zoneId = 0
    THEN ToolResult(<<TokenRequest, FloorConfigRequest>>, TRUE)
    ELSE ToolResult(<<TokenRequest, FloorConfigRequest,
                      CreateBookingRequest(in.zoneId)>>, ~in.bookingOk)

\* the day the tool is called: before and within the dates
Todays == {DaysSinceEpoch([year |-> 2023, month |-> 1, day |-> 1]),
           DaysSinceEpoch([year |-> 2024, month |-> 3, day |-> 1])}

BookDeskInputs ==
    [env : BOOLEAN, tokenOk : BOOLEAN, bookingOk : BOOLEAN,
     date : {None} \cup {Some(d) : d \in BookingDates},
     desk_id : {0, 57}, zoneId : {0, 901}, today : Todays]

InitBooking ==
    /\ desks = <<>>
    /\ occupancyData = <<>>
    /\ floorConfigJson = NoFloorConfig
    /\ call = NoCall
    /\ result = NoResult
    /\ SdkNotCreated

CallHandleBookDesk ==
    \E in \in BookDeskInputs :
        /\ call = NoCall
        /\ in.zoneId = 0                  \* not read by this handler
        /\ call' = [op |-> "handleBookDesk", in |-> in]
        /\ result' = handleBookDesk(in)
        /\ UNCHANGED <<desks, occupancyData, floorConfigJson, sdkVars>>

CallHandleBookDeskWithSdk ==
    \E in \in BookDeskInputs :
        /\ call = NoCall
        /\ call' = [op |-> "handleBookDeskWithSdk", in |-> in]
        /\ result' = handleBookDeskWithSdk(in)
        /\ UNCHANGED <<desks, occupancyData, floorConfigJson, sdkVars>>

NextBooking == CallHandleBookDesk \/ CallHandleBookDeskWithSdk

SpecBooking == InitBooking /\ [][NextBooking]_vars

BookCall == call.op \in {"handleBookDesk", "handleBookDeskWithSdk"}

\* Zeller's congruence: 0 for Saturday, 1 for Sunday, 2 for Monday
Zeller(date) ==
    LET m == IF date.month <= 2 THEN date.month + 12 ELSE date.month
        y == IF date.month <= 2 THEN date.year - 1 ELSE date.year
        k == y % 100
        j == y \div 100
    IN  (date.day + (13 * (m + 1)) \div 5 + k + k \div 4 + j \div 4 + 5 * j) % 7

FallsOnWeekend(date) ==
    date # None /\ IsValidDate(date[1]) /\ Zeller(date[1]) \in {0, 1}

SentCreateBooking ==
    \E i \in 1..Len(result.value) : result.value[i].path = "/bookings"

(* C24: weekend bookings are skipped: for a booking date that falls on a
   Saturday or a Sunday the book-desk tool handler completes without sending
   a create-booking request to the API. *)
C24_WeekendBookingSkipped ==
    (BookCall /\ FallsOnWeekend(call.in.date)) => ~SentCreateBooking

\* a Sunday, the leap day's week: the handler got its token and stopped at
\* the date
C24_Witness ==
    /\ call.op = "handleBookDesk"
    /\ call.in.date = Some([year |-> 2024, month |-> 3, day |-> 3])
    /\ result = ToolResult(<<TokenRequest>>, FALSE)

\* the booking of a working day is sent
C24_WeekdayBooked ==
    /\ BookCall
    /\ call.in.date = Some([year |-> 2024, month |-> 3, day |-> 4])
    /\ SentCreateBooking

----------------------------------------------------------------------------
(* Specification of the SDK-based server under concurrent tool calls *)

\* tool calls made to the server in one behaviour
MaxCalls == 3
\* requests sent to the token endpoint in one behaviour
MaxRefreshes == 2

\* deskbird_get_user_info calls sdk.user.getCurrentUser(),
\* deskbird_get_available_desks calls sdk.getAvailableDesks(), which starts
\* with getWorkspaceConfig and its ensureAccessToken
Tools == {"deskbird_get_user_info", "deskbird_get_available_desks"}

\* A tool call. pc: "initialize" (in sdk.initialize of the first
\* initializeSdk), "sdkReady" (initializeSdk returned the SDK), "ensure" (in
\* the ensureAccessToken of an SDK method), "ready" (ensureAccessToken
\* returned a token), "done" (the API request is sent), "failed" (the
\* handler caught an error). awaiting: the refresh whose promise the call
\* awaits; owner: the call started that refresh. arrivedDuring: the refresh
\* that was in flight when the call entered ensureAccessToken; outcome: what
\* ensureAccessToken gave it; request: the API request it sent.
NewTask(tool) ==
    [tool |-> tool, pc |-> "sdkReady", awaiting |-> 0, owner |-> FALSE,
     arrivedDuring |-> 0, outcome |-> "none", request |-> "none"]

InFlight == {p \in 1..Len(refreshes) : refreshes[p] = "inFlight"}

Put(t, task) ==
    IF t > Len(tasks) THEN Append(tasks, task) ELSE [tasks EXCEPT ![t] = task]

NeverInProgress == FALSE

\* if (this.tokenRefreshPromise)
RefreshInProgress == tokenRefreshPromise # None

HoldsNoToken == FALSE

\* this.currentAccessToken is set
HoldsToken == currentAccessToken # None

\* ensureAccessToken up to its first await, entered by task t: it returns
\* the promise of the refresh in progress, or starts a refresh (the request
\* to the token endpoint leaves at once) and awaits it, or returns the token
ensureAccessToken(t, task, awaitPc, readyPc) ==
    LET arrived == IF InFlight = {} THEN 0 ELSE CHOOSE p \in InFlight : TRUE
    IN  IF RefreshInProgress
        THEN /\ tasks' = Put(t, [task EXCEPT !.pc = awaitPc,
                                    !.awaiting = tokenRefreshPromise[1],
                                    !.owner = FALSE,
                                    !.arrivedDuring = arrived])
             /\ UNCHANGED <<refreshes, tokenRefreshPromise>>
        ELSE IF ~HoldsToken
        THEN /\ Len(refreshes) < MaxRefreshes
             /\ refreshes' = Append(refreshes, "inFlight")
             /\ tokenRefreshPromise' = Some(Len(refreshes) + 1)
             /\ tasks' = Put(t, [task EXCEPT !.pc = awaitPc,
                                    !.awaiting = Len(refreshes) + 1,
                                    !.owner = TRUE,
                                    !.arrivedDuring = arrived])
        ELSE /\ tasks' = Put(t, [task EXCEPT !.pc = readyPc,
                                    !.outcome = "token"])
             /\ UNCHANGED <<refreshes, tokenRefreshPromise>>

\* HttpClient.request: the request carries the default headers of the moment
Requested(task) ==
    [task EXCEPT !.pc = "done",
                 !.request = IF authorization # None THEN "authorized"
                             ELSE "unauthorized"]

InitSdk ==
    /\ desks = <<>>
    /\ occupancyData = <<>>
    /\ floorConfigJson = NoFloorConfig
    /\ call = NoCall
    /\ result = NoResult
    /\ SdkNotCreated

\* A CallToolRequest arrives and its handler runs initializeSdk: the SDK
\* that exists is returned; else the SDK is created, stored in
\* this.deskbirdSdk, and sdk.initialize() is awaited.
HandleToolCall ==
    \E tool \in Tools :
        /\ Len(tasks) < MaxCalls
        /\ IF deskbirdSdk
           THEN /\ tasks' = Append(tasks, NewTask(tool))
                /\ UNCHANGED <<deskbirdSdk, refreshes, tokenRefreshPromise>>
           ELSE /\ deskbirdSdk' = TRUE
                /\ ensureAccessToken(Len(tasks) + 1, NewTask(tool),
                                     "initialize", "sdkReady")
        /\ UNCHANGED <<currentAccessToken, authorization>>
        /\ UNCHANGED <<desks, occupancyData, floorConfigJson, call, result>>

\* The handler goes on after await this.initializeSdk(): getCurrentUser
\* sends its request, getAvailableDesks enters ensureAccessToken.
SdkMethodCall ==
    \E t \in 1..Len(tasks) :
        /\ tasks[t].pc = "sdkReady"
        /\ IF tasks[t].tool = "deskbird_get_user_info"
           THEN /\ tasks' = [tasks EXCEPT ![t] = Requested(tasks[t])]
                /\ UNCHANGED <<refreshes, tokenRefreshPromise>>
           ELSE ensureAccessToken(t, tasks[t], "ensure", "ready")
        /\ UNCHANGED <<deskbirdSdk, currentAccessToken, authorization>>
        /\ UNCHANGED <<desks, occupancyData, floorConfigJson, call, result>>

\* what the call that awaits a refresh goes on with when the refresh ends
Resumed(task, ok) ==
    [task EXCEPT !.outcome = IF ok THEN "token" ELSE "error",
                 !.pc = IF ~ok THEN "failed"
                        ELSE IF task.pc = "initialize" THEN "sdkReady"
                        ELSE "ready"]

\* The token endpoint answers refresh p. refreshAccessToken stores the token
\* and sets the Authorization header, or rethrows; the call that started the
\* refresh is the first to go on: it stores the token again and, in its
\* finally clause, clears tokenRefreshPromise.
RefreshSettles ==
    \E p \in InFlight, ok \in BOOLEAN :
        /\ refreshes' = [refreshes EXCEPT ![p] = IF ok THEN "ok" ELSE "failed"]
        /\ currentAccessToken' = IF ok THEN Some(p) ELSE currentAccessToken
        /\ authorization' = IF ok THEN Some(p) ELSE authorization
        /\ tokenRefreshPromise' = None
        /\ tasks' = [t \in 1..Len(tasks) |->
                        IF tasks[t].owner /\ tasks[t].awaiting = p
                           /\ tasks[t].pc \in {"initialize", "ensure"}
                        THEN Resumed(tasks[t], ok) ELSE tasks[t]]
        /\ UNCHANGED deskbirdSdk
        /\ UNCHANGED <<desks, occupancyData, floorConfigJson, call, result>>

\* A call that was handed the promise of a refresh in progress goes on when
\* the promise is settled.
WaiterResumes ==
    \E t \in 1..Len(tasks) :
        /\ tasks[t].pc \in {"initialize", "ensure"}
        /\ ~tasks[t].owner
        /\ refreshes[tasks[t].awaiting] # "inFlight"
        /\ tasks' = [tasks EXCEPT ![t] =
                        Resumed(tasks[t], refreshes[tasks[t].awaiting] = "ok")]
        /\ UNCHANGED <<deskbirdSdk, currentAccessToken, tokenRefreshPromise,
                       authorization, refreshes>>
        /\ UNCHANGED <<desks, occupancyData, floorConfigJson, call, result>>

\* After ensureAccessToken the SDK method sends its API request.
IssueRequest ==
    \E t \in 1..Len(tasks) :
        /\ tasks[t].pc = "ready"
        /\ tasks' = [tasks EXCEPT ![t] = Requested(tasks[t])]
        /\ UNCHANGED <<deskbirdSdk, currentAccessToken, tokenRefreshPromise,
                       authorization, refreshes>>
        /\ UNCHANGED <<desks, occupancyData, floorConfigJson, call, result>>

NextSdk ==
    \/ HandleToolCall
    \/ SdkMethodCall
    \/ RefreshSettles
    \/ WaiterResumes
    \/ IssueRequest

SpecSdk == InitSdk /\ [][NextSdk]_vars

----------------------------------------------------------------------------
(* Properties of the token refresh *)

\* task t was given what refresh p gave, once it has gone on
GotOutcomeOf(t, p) ==
    /\ tasks[t].awaiting = p
    /\ tasks[t].pc \notin {"initialize", "ensure"} =>
          /\ refreshes[p] # "inFlight"
          /\ tasks[t].outcome = IF refreshes[p] = "ok" THEN "token" ELSE "error"

(* C27: token refresh is single-flight: at most one request to the token
   endpoint is in flight at a time, and every caller of ensureAccessToken
   that arrives while one is in flight receives the outcome of that
   refresh. *)
C27_SingleFlight ==
    /\ Cardinality(InFlight) <= 1
    /\ \A t \in 1..Len(tasks) :
          tasks[t].arrivedDuring # 0 => GotOutcomeOf(t, tasks[t].arrivedDuring)

\* two callers arrived during the refresh of the first tool call; it
\* failed, and both got its error
C27_Witness ==
    /\ Len(tasks) = 3
    /\ Len(refreshes) = 1
    /\ refreshes[1] = "failed"
    /\ \A t \in {2, 3} :
          tasks[t].arrivedDuring = 1 /\ tasks[t].outcome = "error"

(* C28: in the SDK-based server no tool handler sends an API request through
   the SDK before the SDK holds an access token, that is, before the
   Authorization header is set on its HttpClient. *)
C28_NoRequestWithoutToken ==
    \A t \in 1..Len(tasks) : tasks[t].request # "unauthorized"

LastRefreshFailed ==
    /\ refreshes # <<>>
    /\ refreshes[Len(refreshes)] = "failed"
    /\ InFlight = {}

\* some task enters ensureAccessToken in the step
EntersEnsureAccessToken ==
    \E t \in 1..Len(tasks) :
        /\ tasks[t].pc = "sdkReady"
        /\ tasks[t].tool = "deskbird_get_available_desks"
        /\ tasks'[t].pc # "sdkReady"

Succeeded == \E p \in 1..Len(refreshes) : refreshes[p] = "ok"

(* C29: a failed token refresh leaves currentAccessToken null and
   tokenRefreshPromise null, so that the next ensureAccessToken starts a new
   refresh; once a refresh has succeeded currentAccessToken is never cleared
   or replaced and no further refresh request is sent. *)
C29_RefreshLifecycle ==
    [][/\ LastRefreshFailed =>
            /\ currentAccessToken = None
            /\ tokenRefreshPromise = None
            /\ EntersEnsureAccessToken =>
                  /\ Len(refreshes') = Len(refreshes) + 1
                  /\ refreshes'[Len(refreshes')] = "inFlight"
       /\ Succeeded =>
            /\ currentAccessToken # None
            /\ currentAccessToken' = currentAccessToken
            /\ refreshes' = refreshes]_vars

\* after a failed refresh a second one was started and succeeded, and a
\* later caller was given the token without a third
C29_Witness ==
    /\ Len(refreshes) = 2
    /\ refreshes[1] = "failed"
    /\ refreshes[2] = "ok"
    /\ currentAccessToken = Some(2)
    /\ tokenRefreshPromise = None
    /\ \E t \in 1..Len(tasks) :
          tasks[t].awaiting = 0 /\ tasks[t].outcome = "token"

====
